---- MODULE Spec2Model ----
(***************************************************************************)
(* IRKeybridge: the key-mapping / repeat engine (src/src/key_mapper.py)    *)
(* driven by the controller's run loop (src/src/main_controller.py).       *)
(*                                                                         *)
(* Three execution contexts share the KeyMapper's fields:                  *)
(*   - the main thread: IRRemoteController.run polling codes and calling   *)
(*     KeyMapper.process_code (pc);                                        *)
(*   - IRRemoteController.stop, entered from the "stop" special action,    *)
(*     from run's finally block, or from the SIGINT/SIGTERM handler, which *)
(*     Python runs on the main thread between two of its statements (spc); *)
(*   - the threading.Timer thread running KeyMapper._auto_release (tpc).   *)
(* The source takes no lock, so the threads interleave between the         *)
(* statements that read or write shared fields; each such statement (or a  *)
(* group of statements no other context can observe apart) is one step.    *)
(*                                                                         *)
(* Time.  The clock is read on a grid of Grid milliseconds and every      *)
(* timestamp is kept relative to the current instant: Now is 0, a          *)
(* timestamp taken k ticks ago is -k, and a Tick makes every stored        *)
(* timestamp one tick older.  The program only ever compares the age of a  *)
(* timestamp with one of its durations, so a timestamp stops ageing once   *)
(* it is older than the duration it is compared with (Saturated).  The     *)
(* program's durations are kept in milliseconds and every comparison is    *)
(* made in milliseconds.  The clock advances while the run loop waits in   *)
(* get_code / time.sleep; handler code runs within one clock reading (the  *)
(* 20 ms sleeps of a sequence are shorter than a tick).                    *)
(***************************************************************************)
EXTENDS Integers, Sequences, FiniteSets, TLC

VARIABLES
    \* ---- KeyMapper fields (key_mapper.py:17-40)
    running, currently_pressed, last_code, last_mapping, last_code_time,
    first_repeat_time, last_repeat_action_time, repeat_started,
    ghost_key_enabled, single_tapping_enabled, repeat_enabled, release_timer,
    \* ---- expiry times of the threading.Timer objects that were started and
    \*      have neither been cancelled nor fired
    timers,
    \* ---- the keyboard: keys whose last actuator call was a press
    down,
    \* ---- main thread: position in run / process_code and its locals
    pc, last_release_time, ir_code, current_time, key_idx, snapshot,
    time_since_first_repeat, rp_mapping,
    \* ---- IRRemoteController.running and the stop() frame
    ctl_running, spc, s_snapshot, signalled, cleanup_done,
    \* ---- timer thread: position in _auto_release and its local
    tpc, t_snapshot,
    \* ---- history: what the properties speak about (the outcome of the
    \*      call in progress, the previous call, the current hold)
    acted, executed, fires_in_call, prev_code, prev_time, hold_first_repeat,
    signals_close,
    \* ---- IRReceiver fields (ir_receiver.py:46-49), the lines its thread
    \*      has read from the port and the tokens get_code has returned
    serial_connection, receiving, receiver_thread, code_queue, arrived,
    delivered,
    \* ---- the calls stop() has made on the receiver and the mapper
    stop_calls,
    \* ---- the number of executions in which an actuator call has raised
    raised

flag_vars == <<running, ghost_key_enabled, single_tapping_enabled, repeat_enabled>>
engine_vars == <<flag_vars, currently_pressed, last_code, last_mapping,
                 last_code_time, first_repeat_time, last_repeat_action_time,
                 repeat_started, release_timer>>
main_vars == <<pc, last_release_time, ir_code, current_time, key_idx, snapshot,
               time_since_first_repeat, rp_mapping>>
stop_vars == <<ctl_running, spc, s_snapshot, signalled, cleanup_done>>
timer_vars == <<tpc, t_snapshot>>
hist_vars == <<acted, executed, fires_in_call, prev_code, prev_time,
               hold_first_repeat, signals_close>>
receiver_vars == <<serial_connection, receiving, receiver_thread, code_queue,
                   arrived, delivered>>
rest_vars == <<receiver_vars, stop_calls, raised>>
vars == <<engine_vars, timers, down, main_vars, stop_vars, timer_vars,
          hist_vars, rest_vars>>

----------------------------------------------------------------------------
(* Constants of the program, in milliseconds.                              *)

\* key_mapper.py:29  self.release_timeout = 0.12
release_timeout == 120
\* key_mapper.py:27  self.initial_repeat_delay = 0.3
initial_repeat_delay == 300
\* key_mapper.py:28  self.repeat_rate = 0.009
repeat_rate == 9
\* key_mapper.py:92  the 0.01 in (self.release_timeout - 0.01)
auto_release_slack == 10
\* main_controller.py:220  the 0.5 in (current_time - last_release_time) > 0.5
idle_release_interval == 500

(* Bound of the model: milliseconds per clock tick.                        *)
Grid == 120

\* time.time(): the current instant is the origin of the timestamps
Now == 0
\* the oldest value a timestamp compared with `duration` needs to take:
\* strictly older than the duration.  The timestamp 0 of __init__ and of
\* _reset_repeat_state (1970) is that old.
Saturated(duration) == -((duration \div Grid) + 1)
\* a timestamp, one tick later
Older(t, duration) ==
    IF t - 1 < Saturated(duration) THEN Saturated(duration) ELSE t - 1
\* an expiry time (ms from now), one tick later; 0 once it is due
LaterExpiry(d) == IF d - Grid <= 0 THEN 0 ELSE d - Grid

None == "None"
\* None in a timestamp field (timestamps are <= Now)
NoTime == 1
\* None in release_timer (expiry times are >= 0)
NoTimer == -1
REPEAT == "REPEAT"

(* The mapping table handed to set_mappings (key_mapper.py:45-47): one     *)
(* entry of every ActionType (config_manager.py:8-12).  A Single's keys is *)
(* a one-element sequence; Combo and Sequence carry key lists.             *)
mappings ==
    ("0x1" :> [action_type |-> "single", keys |-> <<"a">>]) @@
    ("0x2" :> [action_type |-> "combo", keys |-> <<"ctrl", "c">>]) @@
    ("0x3" :> [action_type |-> "sequence", keys |-> <<"x", "y">>]) @@
    ("0x10" :> [action_type |-> "special", keys |-> <<"stop">>]) @@
    ("0x11" :> [action_type |-> "special", keys |-> <<"toggle_tap">>]) @@
    ("0x12" :> [action_type |-> "special", keys |-> <<"toggle_repeat">>]) @@
    ("0x13" :> [action_type |-> "special", keys |-> <<"toggle_ghost">>]) @@
    ("0x14" :> [action_type |-> "special", keys |-> <<"unknown">>])

\* the control buttons of the remote the controller is run with; the other
\* two controls are sent to the engine directly
PolledControls == {"0x10", "0x11", "0x12"}

\* what receiver.get_code can return besides None: mapped codes, an unmapped
\* code and the REPEAT sentinel
Tokens == DOMAIN mappings \cup {"0xFF", REPEAT}

Range(s) == {s[i] : i \in 1..Len(s)}
KeysOf(code) == IF code \in DOMAIN mappings THEN Range(mappings[code].keys) ELSE {}
IsKeyCode(code) ==
    code \in DOMAIN mappings /\ mappings[code].action_type # "special"
IsHoldCode(code) ==
    code \in DOMAIN mappings /\ mappings[code].action_type \in {"single", "combo"}

----------------------------------------------------------------------------
(* State after KeyMapper.__init__ (key_mapper.py:17-40), set_mappings and  *)
(* IRRemoteController.start (main_controller.py:176), when run() has set   *)
(* last_release_time (line 195) and is about to enter its loop.            *)
MapperInit ==
    /\ running = TRUE
    /\ currently_pressed = {}
    /\ last_code = None
    /\ last_mapping = None
    /\ last_code_time = Saturated(release_timeout)
    /\ first_repeat_time = NoTime
    /\ last_repeat_action_time = Saturated(repeat_rate)
    /\ repeat_started = FALSE
    /\ ghost_key_enabled = FALSE
    /\ single_tapping_enabled = FALSE
    /\ repeat_enabled = TRUE
    /\ release_timer = NoTimer
    /\ timers = {}
    /\ down = {}
    /\ last_release_time = Now
    /\ ir_code = None
    /\ current_time = Now
    /\ key_idx = 0
    /\ snapshot = {}
    /\ time_since_first_repeat = 0
    /\ rp_mapping = None
    /\ spc = "none"
    /\ s_snapshot = {}
    /\ signalled = FALSE
    /\ cleanup_done = FALSE
    /\ tpc = "idle"
    /\ t_snapshot = {}
    /\ acted = FALSE
    /\ executed = <<>>
    /\ fires_in_call = 0
    /\ prev_code = None
    /\ prev_time = Saturated(release_timeout)
    /\ hold_first_repeat = NoTime
    /\ signals_close = TRUE
    /\ stop_calls = <<>>
    /\ raised = 0

\* start() has set the controller's flag (main_controller.py:176) and run()
\* is at the head of its loop
EngineInit == MapperInit /\ pc = "loop" /\ ctl_running = TRUE

\* IRReceiver.__init__ (ir_receiver.py:46-49)
ReceiverConstructed ==
    /\ serial_connection = None
    /\ receiving = FALSE
    /\ receiver_thread = None
    /\ code_queue = <<>>
    /\ arrived = <<>>
    /\ delivered = <<>>

\* start (main_controller.py:176-181) has called receiver.connect() and
\* receiver.start_receiving() (ir_receiver.py:81, 199-201)
ReceiverStarted ==
    /\ serial_connection = "open"
    /\ receiving = TRUE
    /\ receiver_thread = "alive"
    /\ code_queue = <<>>
    /\ arrived = <<>>
    /\ delivered = <<>>

Init == EngineInit /\ ReceiverStarted

----------------------------------------------------------------------------
(* The clock.  It advances while the run loop waits for a code: every      *)
(* stored timestamp becomes one tick older, every expiry one tick nearer.  *)
(* A callback that has started runs to its end within the tick; a due     *)
(* timer whose thread has not yet woken up may stay due.                   *)
Tick ==
    /\ pc = "loop"
    /\ spc = "none"
    /\ tpc = "idle"
    /\ last_code_time' = Older(last_code_time, release_timeout)
    /\ first_repeat_time' =
          IF first_repeat_time = NoTime THEN NoTime
          ELSE Older(first_repeat_time, initial_repeat_delay)
    /\ last_repeat_action_time' = Older(last_repeat_action_time, repeat_rate)
    /\ last_release_time' = Older(last_release_time, idle_release_interval)
    /\ release_timer' =
          IF release_timer = NoTimer THEN NoTimer ELSE LaterExpiry(release_timer)
    /\ timers' = {LaterExpiry(d) : d \in timers}
    /\ prev_time' = Older(prev_time, release_timeout)
    /\ hold_first_repeat' =
          IF hold_first_repeat = NoTime THEN NoTime
          ELSE Older(hold_first_repeat, initial_repeat_delay)
    /\ UNCHANGED <<flag_vars, currently_pressed, last_code, last_mapping,
                   repeat_started, down, pc, ir_code, current_time, key_idx,
                   snapshot, time_since_first_repeat, rp_mapping,
                   stop_vars, timer_vars, acted, executed, fires_in_call, prev_code,
                   signals_close,
                   rest_vars>>

----------------------------------------------------------------------------
(* The timer thread: threading.Timer(release_timeout, _auto_release).      *)

\* key_mapper.py:92  (current_time - self.last_code_time) >= (self.release_timeout - 0.01)
IsStale(t) == (t - last_code_time) * Grid >= (release_timeout - auto_release_slack)

\* threading.Timer.run: the interval has passed and the timer was not
\* cancelled, so the callback is entered.  A cancel() after this point no
\* longer stops it.
TimerFire ==
    /\ tpc = "idle"
    /\ \E d \in timers :
          /\ d <= Now
          /\ timers' = timers \ {d}
    /\ tpc' = "t_check"
    /\ UNCHANGED <<engine_vars, down, main_vars, stop_vars, t_snapshot,
                   hist_vars,
                   rest_vars>>

\* _auto_release, lines 91-92: read the clock and test staleness
AutoReleaseCheck ==
    /\ tpc = "t_check"
    /\ tpc' = IF IsStale(Now) THEN "t_snap" ELSE "idle"
    /\ UNCHANGED <<engine_vars, timers, down, main_vars, stop_vars,
                   t_snapshot, hist_vars,
                   rest_vars>>

\* _release_all, lines 65-68: test the set and copy it
AutoReleaseSnapshot ==
    /\ tpc = "t_snap"
    /\ IF currently_pressed # {}
          THEN t_snapshot' = currently_pressed /\ tpc' = "t_release"
          ELSE t_snapshot' = {} /\ tpc' = "t_reset1"
    /\ UNCHANGED <<engine_vars, timers, down, main_vars, stop_vars, hist_vars,
                   rest_vars>>

\* _release_all, lines 68-72: keyboard.release for every copied key
AutoReleaseKeys ==
    /\ tpc = "t_release"
    /\ down' = down \ t_snapshot
    /\ tpc' = "t_clear"
    /\ UNCHANGED <<engine_vars, timers, main_vars, stop_vars, t_snapshot,
                   hist_vars,
                   rest_vars>>

\* _release_all, line 73: self.currently_pressed.clear()
AutoReleaseClear ==
    /\ tpc = "t_clear"
    /\ currently_pressed' = {}
    /\ t_snapshot' = {}
    /\ tpc' = "t_reset1"
    /\ UNCHANGED <<flag_vars, last_code, last_mapping, last_code_time,
                   first_repeat_time, last_repeat_action_time, repeat_started,
                   release_timer, timers, down, main_vars, stop_vars,
                   hist_vars,
                   rest_vars>>

\* _reset_repeat_state on the timer thread, one shared field (or one pair
\* of fields the main thread never reads apart) per step: lines 100-104
AutoResetFirstRepeat ==
    /\ tpc = "t_reset1"
    /\ first_repeat_time' = NoTime
    /\ tpc' = "t_reset2"
    /\ UNCHANGED <<flag_vars, currently_pressed, last_code, last_mapping,
                   last_code_time, last_repeat_action_time, repeat_started,
                   release_timer, timers, down, main_vars, stop_vars,
                   t_snapshot, hist_vars,
                   rest_vars>>

AutoResetRepeatStarted ==
    /\ tpc = "t_reset2"
    /\ repeat_started' = FALSE
    /\ last_repeat_action_time' = Saturated(repeat_rate)
    /\ tpc' = "t_reset3"
    /\ UNCHANGED <<flag_vars, currently_pressed, last_code, last_mapping,
                   last_code_time, first_repeat_time, release_timer, timers,
                   down, main_vars, stop_vars, t_snapshot, hist_vars,
                   rest_vars>>

AutoResetLastCode ==
    /\ tpc = "t_reset3"
    /\ last_code' = None
    /\ tpc' = "t_reset4"
    /\ UNCHANGED <<flag_vars, currently_pressed, last_mapping, last_code_time,
                   first_repeat_time, last_repeat_action_time, repeat_started,
                   release_timer, timers, down, main_vars, stop_vars,
                   t_snapshot, hist_vars,
                   rest_vars>>

AutoResetLastMapping ==
    /\ tpc = "t_reset4"
    /\ last_mapping' = None
    /\ tpc' = "idle"
    /\ UNCHANGED <<flag_vars, currently_pressed, last_code, last_code_time,
                   first_repeat_time, last_repeat_action_time, repeat_started,
                   release_timer, timers, down, main_vars, stop_vars,
                   t_snapshot, hist_vars,
                   rest_vars>>

TimerThread ==
    \/ TimerFire \/ AutoReleaseCheck \/ AutoReleaseSnapshot \/ AutoReleaseKeys
    \/ AutoReleaseClear \/ AutoResetFirstRepeat \/ AutoResetRepeatStarted
    \/ AutoResetLastCode \/ AutoResetLastMapping

----------------------------------------------------------------------------
(* Helpers of the main thread.                                             *)

\* threading.Timer(self.release_timeout, ...).start(): the expiry time
TimerExpiry == Now + release_timeout

\* a timer is started and the previous one is left running
ScheduledWithoutCancel == timers \cup {TimerExpiry}

\* _schedule_release (key_mapper.py:77-87): cancel the previous Timer object,
\* start a new one
ScheduledTimers == (timers \ {release_timer}) \cup {TimerExpiry}

\* the Timer objects when cancel() is not called
UncancelledTimers == timers

\* Timer.cancel() of the current Timer object, if any (key_mapper.py:300-301)
CancelledTimers == timers \ {release_timer}

\* a timeout test that every code passes: each code is a new press
IsAfterTimeoutAlways == TRUE

\* process_code, lines 126-127
IsNewButton == ir_code # last_code
IsAfterTimeout == (current_time - last_code_time) * Grid > release_timeout

\* _handle_repeat, line 176 and line 186
DelayPassedAtOnce(since_first) == since_first * Grid >= 0
DelayPassed(since_first) == since_first * Grid >= initial_repeat_delay
\* a rate test that every REPEAT passes
RatePassedAlways(since_last) == TRUE
RatePassed(since_last) == since_last * Grid >= repeat_rate

\* process_code goes on to its next statement
Goto(next) ==
    /\ pc' = next
    /\ UNCHANGED <<ir_code, prev_code, prev_time>>

\* process_code(code) returns res to run (line 214).  The history keeps the
\* code and time of a call that was a new press.
ReturnsFrom(code, res) ==
    /\ pc' = IF res THEN "ret_true" ELSE "ret_false"
    /\ ir_code' = code
    /\ UNCHANGED <<acted, executed, fires_in_call>>
    /\ prev_code' = IF res /\ IsKeyCode(code) THEN code ELSE None
    /\ prev_time' = IF res /\ IsKeyCode(code) THEN current_time
                                              ELSE Saturated(release_timeout)

Returns(res) == ReturnsFrom(ir_code, res)

\* an exception leaves process_code and is caught by run (line 229)
Raises ==
    /\ pc' = "finally"
    /\ ir_code' = None
    /\ acted' = FALSE
    /\ executed' = <<>>
    /\ fires_in_call' = 0
    /\ prev_code' = None
    /\ prev_time' = Saturated(release_timeout)

\* a poll that does not look at the mapper's running flag
CanPollDisabled == pc = "loop" /\ spc = "none" /\ ctl_running

\* run, lines 197-200: the loop finds running true and get_code returns a
\* token; process_code, line 110: the mapper is enabled
CanPoll == pc = "loop" /\ spc = "none" /\ ctl_running /\ running

----------------------------------------------------------------------------
(* The main thread: IRRemoteController.run (main_controller.py:183-234)    *)
(* and the KeyMapper.process_code call it makes (key_mapper.py:106-150).   *)

\* process_code, lines 112-115: read the clock; the REPEAT sentinel goes to
\* _handle_repeat
ProcessRepeatToken ==
    /\ CanPoll
    /\ ir_code' = REPEAT
    /\ current_time' = Now
    /\ pc' = "h_check"
    /\ UNCHANGED <<engine_vars, timers, down, last_release_time, key_idx,
                   snapshot, time_since_first_repeat, rp_mapping,
                   stop_vars, timer_vars, hist_vars,
                   rest_vars>>

\* an unmapped code handled as the end of the current hold: the keys held
\* are released
ProcessUnmappedReleasing ==
    /\ CanPoll
    /\ \E t \in Tokens \ (DOMAIN mappings \cup {REPEAT}) : ReturnsFrom(t, FALSE)
    /\ current_time' = Now
    /\ down' = down \ currently_pressed
    /\ currently_pressed' = {}
    /\ UNCHANGED <<flag_vars, last_code, last_mapping, last_code_time,
                   first_repeat_time, last_repeat_action_time, repeat_started,
                   release_timer, timers, last_release_time, key_idx,
                   snapshot, time_since_first_repeat, rp_mapping, stop_vars,
                   timer_vars, hold_first_repeat, signals_close,
                   rest_vars>>

\* process_code, lines 117-121: no mapping, return False
ProcessUnmapped ==
    /\ CanPoll
    /\ \E t \in Tokens \ (DOMAIN mappings \cup {REPEAT}) : ReturnsFrom(t, FALSE)
    /\ current_time' = Now
    /\ UNCHANGED <<engine_vars, timers, down, last_release_time, key_idx,
                   snapshot, time_since_first_repeat, rp_mapping, stop_vars,
                   timer_vars, hold_first_repeat,
                   signals_close,
                   rest_vars>>

\* a toggle that switches the flag on
SwitchedOn(flag) == TRUE

\* _handle_special, lines 284, 288, 292: flag = not flag
Toggled(flag) == ~flag

\* a Special code handled like a button: it is recorded in last_code
HandleSpecialAsButton(t) ==
    /\ mappings[t].action_type = "special"
    /\ LET action == mappings[t].keys[1] IN
       /\ spc' = IF action = "stop" THEN "s_begin" ELSE spc
       /\ ghost_key_enabled' =
            IF action = "toggle_ghost" THEN ~ghost_key_enabled
                                       ELSE ghost_key_enabled
       /\ single_tapping_enabled' =
            IF action = "toggle_tap" THEN ~single_tapping_enabled
                                     ELSE single_tapping_enabled
       /\ repeat_enabled' =
            IF action = "toggle_repeat" THEN ~repeat_enabled
                                        ELSE repeat_enabled
       /\ ReturnsFrom(t, action \in {"stop", "toggle_ghost",
                                     "toggle_tap", "toggle_repeat"})
    /\ current_time' = Now
    /\ last_code' = t
    /\ UNCHANGED <<running, currently_pressed, last_mapping,
                   last_code_time, first_repeat_time, last_repeat_action_time,
                   repeat_started, release_timer, timers, down,
                   last_release_time, key_idx, snapshot,
                   time_since_first_repeat, rp_mapping, ctl_running,
                   s_snapshot, signalled, cleanup_done, timer_vars,
                   hold_first_repeat,
                   signals_close,
                   rest_vars>>

\* process_code, lines 123-124 and _handle_special, lines 277-295.  The
\* stop callback is IRRemoteController.stop (main_controller.py:54-56).
HandleSpecial(t) ==
    /\ mappings[t].action_type = "special"
    /\ LET action == mappings[t].keys[1] IN
       /\ spc' = IF action = "stop" THEN "s_begin" ELSE spc
       /\ ghost_key_enabled' =
            IF action = "toggle_ghost" THEN Toggled(ghost_key_enabled)
                                       ELSE ghost_key_enabled
       /\ single_tapping_enabled' =
            IF action = "toggle_tap" THEN Toggled(single_tapping_enabled)
                                     ELSE single_tapping_enabled
       /\ repeat_enabled' =
            IF action = "toggle_repeat" THEN Toggled(repeat_enabled)
                                        ELSE repeat_enabled
       /\ ReturnsFrom(t, action \in {"stop", "toggle_ghost",
                                     "toggle_tap", "toggle_repeat"})
    /\ current_time' = Now
    /\ UNCHANGED <<running, currently_pressed, last_code, last_mapping,
                   last_code_time, first_repeat_time, last_repeat_action_time,
                   repeat_started, release_timer, timers, down,
                   last_release_time, key_idx, snapshot,
                   time_since_first_repeat, rp_mapping, ctl_running,
                   s_snapshot, signalled, cleanup_done, timer_vars,
                   hold_first_repeat,
                   signals_close,
                   rest_vars>>

\* a control button of the remote is polled
ProcessSpecial == CanPoll /\ \E t \in PolledControls : HandleSpecial(t)

\* process_code, lines 117-124: a Single, Combo or Sequence mapping is found
ProcessKeyCode ==
    /\ CanPoll
    /\ \E t \in DOMAIN mappings : IsKeyCode(t) /\ ir_code' = t
    /\ current_time' = Now
    /\ pc' = "p_decide"
    /\ UNCHANGED <<engine_vars, timers, down, last_release_time, key_idx,
                   snapshot, time_since_first_repeat, rp_mapping,
                   stop_vars, timer_vars, hist_vars,
                   rest_vars>>

\* process_code, lines 126-130 and 147-150: new press, or bounce
DecidePress ==
    /\ pc = "p_decide"
    /\ spc = "none"
    /\ IF IsNewButton \/ IsAfterTimeout
          THEN /\ Goto(IF IsNewButton /\ currently_pressed # {}
                          THEN "ra_snap" ELSE "p_reset")
               /\ UNCHANGED <<acted, executed, fires_in_call>>
          ELSE Returns(FALSE)
    /\ UNCHANGED <<engine_vars, timers, down, last_release_time, current_time,
                   key_idx, snapshot, time_since_first_repeat, rp_mapping,
                   stop_vars, timer_vars, hold_first_repeat,
                   signals_close,
                   rest_vars>>

\* _release_all called at line 131; lines 65-68: test the set and copy it
ReleaseAllSnapshot ==
    /\ pc = "ra_snap"
    /\ spc = "none"
    /\ IF currently_pressed # {}
          THEN snapshot' = currently_pressed /\ Goto("ra_release")
          ELSE snapshot' = {} /\ Goto("p_reset")
    /\ UNCHANGED <<engine_vars, timers, down, last_release_time, current_time,
                   key_idx, time_since_first_repeat, rp_mapping, stop_vars,
                   timer_vars, acted, executed, fires_in_call, hold_first_repeat,
                   signals_close,
                   rest_vars>>

\* _release_all, lines 68-72
ReleaseAllKeys ==
    /\ pc = "ra_release"
    /\ spc = "none"
    /\ down' = down \ snapshot
    /\ acted' = TRUE
    /\ Goto("ra_clear")
    /\ UNCHANGED <<engine_vars, timers, last_release_time, current_time,
                   key_idx, snapshot, time_since_first_repeat, rp_mapping,
                   stop_vars, timer_vars, executed, fires_in_call,
                   hold_first_repeat,
                   signals_close,
                   rest_vars>>

\* _release_all, line 73
ReleaseAllClear ==
    /\ pc = "ra_clear"
    /\ spc = "none"
    /\ currently_pressed' = {}
    /\ snapshot' = {}
    /\ Goto("p_reset")
    /\ UNCHANGED <<flag_vars, last_code, last_mapping, last_code_time,
                   first_repeat_time, last_repeat_action_time, repeat_started,
                   release_timer, timers, down, last_release_time,
                   current_time, key_idx, time_since_first_repeat, rp_mapping,
                   stop_vars, timer_vars, acted, executed, fires_in_call,
                   hold_first_repeat,
                   signals_close,
                   rest_vars>>

\* process_code, line 133: _reset_repeat_state (lines 98-104).  The timer
\* thread never reads these fields and writes the same values to them, so
\* the five assignments are one step here.  A new hold begins.
ResetForNewPress ==
    /\ pc = "p_reset"
    /\ spc = "none"
    /\ first_repeat_time' = NoTime
    /\ repeat_started' = FALSE
    /\ last_repeat_action_time' = Saturated(repeat_rate)
    /\ last_code' = None
    /\ last_mapping' = None
    /\ hold_first_repeat' = NoTime
    /\ signals_close' = TRUE
    /\ key_idx' = 1
    /\ Goto("ip_press")
    /\ UNCHANGED <<flag_vars, currently_pressed, last_code_time, release_timer,
                   timers, down, last_release_time, current_time, snapshot,
                   time_since_first_repeat, rp_mapping, stop_vars, timer_vars,
                   acted, executed, fires_in_call, rest_vars>>

\* _execute_tap (lines 256-266) and _execute_sequence (lines 268-275) as
\* seen by the keyboard: every key is pressed and released again
TapDown(code) == down \ KeysOf(code)

\* The actuator calls of the _execute functions, in the order they are made.
\* A call is <<function of the keyboard module, key names>>; the key names
\* are one key, or the keys that '+'.join puts into one argument.
Call(function, keys) == <<function, keys>>

\* one call of function per key of the list, last key first
CallPerKeyBackwards(function, keys) ==
    [i \in 1..Len(keys) |-> Call(function, <<keys[Len(keys) + 1 - i]>>)]

\* one call of function per key of the list, in list order
CallPerKey(function, keys) ==
    [i \in 1..Len(keys) |-> Call(function, <<keys[i]>>)]

\* the keys of a sequence tapped last key first
ExecuteSequenceBackwards(code) ==
    [i \in 1..Len(mappings[code].keys) |->
        Call("press_and_release",
             <<mappings[code].keys[Len(mappings[code].keys) + 1 - i]>>)]

\* _execute_sequence (key_mapper.py:268-275)
ExecuteSequence(code) == CallPerKey("press_and_release", mappings[code].keys)

\* a tap that presses and releases the keys of a list one by one
ExecuteTapPerKey(code) == CallPerKey("press_and_release", mappings[code].keys)

\* _execute_tap (key_mapper.py:256-266)
ExecuteTap(code) ==
    IF mappings[code].action_type = "sequence"
       THEN ExecuteSequence(code)
       ELSE <<Call("press_and_release", mappings[code].keys)>>

\* _execute_initial_press, lines 194-212: tap mode and sequences run in one
\* step; in hold mode this is keyboard.press of the next key
InitialPress ==
    /\ pc = "ip_press"
    /\ spc = "none"
    /\ acted' = TRUE
    /\ IF single_tapping_enabled \/ mappings[ir_code].action_type = "sequence"
          THEN /\ down' = TapDown(ir_code)
               /\ executed' = executed \o
                     (IF single_tapping_enabled THEN ExecuteTap(ir_code)
                                                ELSE ExecuteSequence(ir_code))
               /\ Goto("p_record_code")
          ELSE /\ down' = down \cup {mappings[ir_code].keys[key_idx]}
               /\ executed' = Append(executed,
                     Call("press", <<mappings[ir_code].keys[key_idx]>>))
               /\ Goto("ip_add")
    /\ UNCHANGED <<engine_vars, timers, last_release_time, current_time,
                   key_idx, snapshot, time_since_first_repeat, rp_mapping,
                   stop_vars, timer_vars, fires_in_call, hold_first_repeat,
                   signals_close,
                   rest_vars>>

\* _execute_initial_press, lines 200, 206, 209: currently_pressed.add(key)
InitialAdd ==
    /\ pc = "ip_add"
    /\ spc = "none"
    /\ currently_pressed' = currently_pressed \cup {mappings[ir_code].keys[key_idx]}
    /\ IF key_idx < Len(mappings[ir_code].keys)
          THEN key_idx' = key_idx + 1 /\ Goto("ip_press")
          ELSE key_idx' = 0 /\ Goto("p_record_code")
    /\ UNCHANGED <<flag_vars, last_code, last_mapping, last_code_time,
                   first_repeat_time, last_repeat_action_time, repeat_started,
                   release_timer, timers, down, last_release_time,
                   current_time, snapshot, time_since_first_repeat, rp_mapping,
                   stop_vars, timer_vars, acted, executed, fires_in_call,
                   hold_first_repeat,
                   signals_close,
                   rest_vars>>

\* process_code, line 140
RecordLastCode ==
    /\ pc = "p_record_code"
    /\ spc = "none"
    /\ last_code' = ir_code
    /\ key_idx' = 0
    /\ Goto("p_record_time")
    /\ UNCHANGED <<flag_vars, currently_pressed, last_mapping, last_code_time,
                   first_repeat_time, last_repeat_action_time, repeat_started,
                   release_timer, timers, down, last_release_time,
                   current_time, snapshot, time_since_first_repeat, rp_mapping,
                   stop_vars, timer_vars, acted, executed, fires_in_call,
                   hold_first_repeat,
                   signals_close,
                   rest_vars>>

\* process_code, lines 141-146: last_mapping, last_code_time,
\* _schedule_release, return True
RecordAndSchedule ==
    /\ pc = "p_record_time"
    /\ spc = "none"
    /\ last_mapping' = ir_code
    /\ last_code_time' = current_time
    /\ timers' = ScheduledTimers
    /\ release_timer' = TimerExpiry
    /\ Returns(TRUE)
    /\ UNCHANGED <<flag_vars, currently_pressed, last_code, first_repeat_time,
                   last_repeat_action_time, repeat_started, down,
                   last_release_time, current_time, key_idx, snapshot,
                   time_since_first_repeat, rp_mapping, stop_vars, timer_vars,
                   hold_first_repeat,
                   signals_close,
                   rest_vars>>

----------------------------------------------------------------------------
(* KeyMapper._handle_repeat (key_mapper.py:152-190).                       *)

\* a REPEAT accepted without an active button
RepeatCheckSkipped ==
    /\ pc = "h_check"
    /\ spc = "none"
    /\ Goto("h_refresh")
    /\ hold_first_repeat' = IF hold_first_repeat = NoTime THEN current_time
                                                         ELSE hold_first_repeat
    /\ UNCHANGED <<engine_vars, timers, down, last_release_time, current_time,
                   key_idx, snapshot, time_since_first_repeat, rp_mapping,
                   stop_vars, timer_vars, acted, executed, fires_in_call, signals_close,
                   rest_vars>>

\* lines 156-159: no active button, return False.  Otherwise the REPEAT
\* belongs to the current hold; the history keeps the time of its first one.
RepeatCheckActive ==
    /\ pc = "h_check"
    /\ spc = "none"
    /\ IF last_code = None \/ last_mapping = None
          THEN /\ Returns(FALSE)
               /\ hold_first_repeat' = hold_first_repeat
          ELSE /\ Goto("h_refresh")
               /\ UNCHANGED <<acted, executed, fires_in_call>>
               /\ hold_first_repeat' = IF hold_first_repeat = NoTime
                                          THEN current_time
                                          ELSE hold_first_repeat
    /\ UNCHANGED <<engine_vars, timers, down, last_release_time, current_time,
                   key_idx, snapshot, time_since_first_repeat, rp_mapping,
                   stop_vars, timer_vars, signals_close,
                   rest_vars>>

\* lines 161-162: refresh last_code_time, reschedule the timer
RepeatRefresh ==
    /\ pc = "h_refresh"
    /\ spc = "none"
    /\ last_code_time' = current_time
    /\ timers' = ScheduledTimers
    /\ release_timer' = TimerExpiry
    /\ Goto("h_first")
    /\ UNCHANGED <<flag_vars, currently_pressed, last_code, last_mapping,
                   first_repeat_time, last_repeat_action_time, repeat_started,
                   down, last_release_time, current_time, key_idx, snapshot,
                   time_since_first_repeat, rp_mapping, stop_vars, timer_vars,
                   acted, executed, fires_in_call, hold_first_repeat,
                   rest_vars>>
    /\ signals_close' =
          (signals_close /\ (current_time - last_code_time) * Grid < release_timeout)

\* lines 167-171 without the repeat_enabled test of lines 164-165
RepeatFirstUnconditional ==
    /\ pc = "h_first"
    /\ spc = "none"
    /\ IF first_repeat_time = NoTime
          THEN /\ Returns(TRUE)
               /\ first_repeat_time' = current_time
          ELSE /\ Goto("h_since")
               /\ UNCHANGED <<acted, executed, fires_in_call>>
               /\ first_repeat_time' = first_repeat_time
    /\ UNCHANGED <<flag_vars, currently_pressed, last_code, last_mapping,
                   last_code_time, last_repeat_action_time, repeat_started,
                   release_timer, timers, down, last_release_time,
                   current_time, key_idx, snapshot, time_since_first_repeat,
                   rp_mapping, stop_vars, timer_vars, hold_first_repeat,
                   signals_close,
                   rest_vars>>

\* lines 164-171: keep-alive only when repeat is disabled; the first REPEAT
\* of a hold only records its time
RepeatFirst ==
    /\ pc = "h_first"
    /\ spc = "none"
    /\ IF ~repeat_enabled
          THEN /\ Returns(TRUE)
               /\ first_repeat_time' = first_repeat_time
          ELSE IF first_repeat_time = NoTime
          THEN /\ Returns(TRUE)
               /\ first_repeat_time' = current_time
          ELSE /\ Goto("h_since")
               /\ UNCHANGED <<acted, executed, fires_in_call>>
               /\ first_repeat_time' = first_repeat_time
    /\ UNCHANGED <<flag_vars, currently_pressed, last_code, last_mapping,
                   last_code_time, last_repeat_action_time, repeat_started,
                   release_timer, timers, down, last_release_time,
                   current_time, key_idx, snapshot, time_since_first_repeat,
                   rp_mapping, stop_vars, timer_vars, hold_first_repeat,
                   signals_close,
                   rest_vars>>

\* line 173: current_time - self.first_repeat_time.  If the timer thread has
\* reset first_repeat_time to None since line 167, the subtraction raises
\* TypeError, which leaves process_code and is caught by run (line 229).
RepeatSinceFirst ==
    /\ pc = "h_since"
    /\ spc = "none"
    /\ IF first_repeat_time = NoTime
          THEN /\ time_since_first_repeat' = 0
               /\ Raises
          ELSE /\ time_since_first_repeat' = current_time - first_repeat_time
               /\ Goto("h_started")
               /\ UNCHANGED <<acted, executed, fires_in_call>>
    /\ UNCHANGED <<engine_vars, timers, down, last_release_time, current_time,
                   key_idx, snapshot, rp_mapping, stop_vars, timer_vars,
                   hold_first_repeat,
                   signals_close,
                   rest_vars>>

\* lines 175-182: the first firing, once initial_repeat_delay has passed
RepeatStart ==
    /\ pc = "h_started"
    /\ spc = "none"
    /\ time_since_first_repeat' = 0
    /\ IF repeat_started
          THEN /\ Goto("h_rate")
               /\ UNCHANGED <<repeat_started, rp_mapping, acted, executed, fires_in_call>>
          ELSE IF DelayPassed(time_since_first_repeat)
          THEN /\ repeat_started' = TRUE
               /\ rp_mapping' = last_mapping
               /\ Goto("rp_exec")
               /\ UNCHANGED <<acted, executed, fires_in_call>>
          ELSE /\ Returns(TRUE)
               /\ UNCHANGED <<repeat_started, rp_mapping>>
    /\ UNCHANGED <<flag_vars, currently_pressed, last_code, last_mapping,
                   last_code_time, first_repeat_time, last_repeat_action_time,
                   release_timer, timers, down, last_release_time,
                   current_time, key_idx, snapshot, stop_vars, timer_vars,
                   hold_first_repeat,
                   signals_close,
                   rest_vars>>

\* lines 184-190: later firings, at most one per repeat_rate
RepeatRate ==
    /\ pc = "h_rate"
    /\ spc = "none"
    /\ IF RatePassed(current_time - last_repeat_action_time)
          THEN /\ rp_mapping' = last_mapping
               /\ Goto("rp_exec")
               /\ UNCHANGED <<acted, executed, fires_in_call>>
          ELSE /\ rp_mapping' = rp_mapping
               /\ Returns(TRUE)
    /\ UNCHANGED <<engine_vars, timers, down, last_release_time, current_time,
                   key_idx, snapshot, time_since_first_repeat, stop_vars,
                   timer_vars, hold_first_repeat,
                   signals_close,
                   rest_vars>>

\* _execute_repeat_action, lines 220-250: a repeat action fires.  A None
\* mapping raises AttributeError at line 221, which line 252 catches.  Tap
\* mode and sequences run in one step; in hold mode this is the release of
\* every key of the mapping.
RepeatAction ==
    /\ pc = "rp_exec"
    /\ spc = "none"
    /\ fires_in_call' = fires_in_call + 1
    /\ IF rp_mapping = None
          THEN /\ UNCHANGED <<down, acted, executed>>
               /\ Goto("rp_done")
          ELSE /\ acted' = TRUE
               /\ IF single_tapping_enabled
                     \/ mappings[rp_mapping].action_type = "sequence"
                     THEN /\ down' = TapDown(rp_mapping)
                          /\ executed' = executed \o
                                (IF single_tapping_enabled
                                    THEN ExecuteTap(rp_mapping)
                                    ELSE ExecuteSequence(rp_mapping))
                          /\ Goto("rp_done")
                     ELSE /\ down' = down \ KeysOf(rp_mapping)
                          /\ executed' = executed \o
                                CallPerKey("release", mappings[rp_mapping].keys)
                          /\ Goto("rp_press")
    /\ UNCHANGED <<engine_vars, timers, last_release_time, current_time,
                   key_idx, snapshot, time_since_first_repeat, rp_mapping,
                   stop_vars, timer_vars, hold_first_repeat,
                   signals_close,
                   rest_vars>>

\* _execute_repeat_action, lines 231, 239-240, 243: press every key again
RepeatPress ==
    /\ pc = "rp_press"
    /\ spc = "none"
    /\ down' = down \cup KeysOf(rp_mapping)
    /\ executed' = executed \o CallPerKey("press", mappings[rp_mapping].keys)
    /\ Goto("rp_done")
    /\ UNCHANGED <<engine_vars, timers, last_release_time, current_time,
                   key_idx, snapshot, time_since_first_repeat, rp_mapping,
                   stop_vars, timer_vars, acted, fires_in_call,
                   hold_first_repeat,
                   signals_close,
                   rest_vars>>

\* _handle_repeat, lines 181-182 and 188-190
RepeatDone ==
    /\ pc = "rp_done"
    /\ spc = "none"
    /\ last_repeat_action_time' = current_time
    /\ rp_mapping' = None
    /\ Returns(TRUE)
    /\ UNCHANGED <<flag_vars, currently_pressed, last_code, last_mapping,
                   last_code_time, first_repeat_time, repeat_started,
                   release_timer, timers, down, last_release_time,
                   current_time, key_idx, snapshot, time_since_first_repeat,
                   stop_vars, timer_vars, hold_first_repeat,
                   signals_close,
                   rest_vars>>

----------------------------------------------------------------------------
(* The rest of IRRemoteController.run (main_controller.py:197-234).        *)

\* lines 218-225: get_code returned None.  Once more than
\* idle_release_interval has passed since last_release_time the loop calls
\* self.mapper._release_all_keys(), a method KeyMapper does not have:
\* AttributeError, caught at line 229.
PollNone ==
    /\ pc = "loop"
    /\ spc = "none"
    /\ ctl_running
    /\ pc' = IF (Now - last_release_time) * Grid > idle_release_interval
                THEN "finally" ELSE "loop"
    /\ UNCHANGED <<engine_vars, timers, down, last_release_time, ir_code,
                   current_time, key_idx, snapshot, time_since_first_repeat,
                   rp_mapping, stop_vars, timer_vars, hist_vars,
                   rest_vars>>

\* lines 216-225: process_code has returned; run logs the elapsed time,
\* sleeps and loops
LoopSleep ==
    /\ pc \in {"ret_true", "ret_false"}
    /\ spc = "none"
    /\ pc' = "loop"
    /\ ir_code' = None
    /\ acted' = FALSE
    /\ executed' = <<>>
    /\ fires_in_call' = 0
    /\ UNCHANGED <<engine_vars, timers, down, last_release_time, current_time,
                   key_idx, snapshot, time_since_first_repeat, rp_mapping,
                   stop_vars, timer_vars, prev_code, prev_time,
                   hold_first_repeat, signals_close,
                   rest_vars>>

\* lines 227-232: KeyboardInterrupt or another exception raised by get_code
\* (tests/test_main_controller.py:202-212)
LoopRaise ==
    /\ pc = "loop"
    /\ spc = "none"
    /\ ctl_running
    /\ pc' = "finally"
    /\ UNCHANGED <<engine_vars, timers, down, last_release_time, ir_code,
                   current_time, key_idx, snapshot, time_since_first_repeat,
                   rp_mapping, stop_vars, timer_vars, hist_vars,
                   rest_vars>>

\* line 197: the loop finds running false
LoopExit ==
    /\ pc = "loop"
    /\ spc = "none"
    /\ ~ctl_running
    /\ pc' = "finally"
    /\ UNCHANGED <<engine_vars, timers, down, last_release_time, ir_code,
                   current_time, key_idx, snapshot, time_since_first_repeat,
                   rp_mapping, stop_vars, timer_vars, hist_vars,
                   rest_vars>>

\* lines 233-234: finally: self.stop(); run returns when stop has returned
Finally ==
    /\ pc = "finally"
    /\ spc = "none"
    /\ pc' = "returned"
    /\ spc' = "s_begin"
    /\ UNCHANGED <<engine_vars, timers, down, last_release_time, ir_code,
                   current_time, key_idx, snapshot, time_since_first_repeat,
                   rp_mapping, ctl_running, s_snapshot, signalled,
                   cleanup_done, timer_vars, hist_vars,
                   rest_vars>>

RunReturned == pc = "returned" /\ spc = "none"

----------------------------------------------------------------------------
(* IRReceiver (ir_receiver.py).  A line read from the port is the list of  *)
(* its "|"-separated parts, each part split after its first ":" into a     *)
(* prefix and the rest; a part without ":" is a prefix alone.              *)

MaxLines == 4

Part(prefix, rest) == <<prefix, rest>>

\* the line the expected format describes (ir_receiver.py:125)
IrDataLine(raw) ==
    <<Part("IR_DATA", ""), Part("Protocol:", "NEC"), Part("Raw:", raw),
      Part("Bits:", "32")>>

\* a line that is one word or one "name:value" pair
BareLine(prefix, rest) == <<Part(prefix, rest)>>

StatusLines == {BareLine("READY", ""), BareLine("RST", ""), BareLine("OK:", "LED")}

\* what the serial link can carry
Lines ==
    {IrDataLine("0x1"), IrDataLine("0x2"), IrDataLine(""), IrDataLine(REPEAT),
     <<Part("IR_DATA", ""), Part("Protocol:", "NEC")>>,
     BareLine(REPEAT, ""), BareLine("0x1", "")} \cup StatusLines

\* a line of one word read as the token itself, the reading of
\* tests/test_ir_receiver.py:99-121
ParseBareLine(data) ==
    IF Len(data) = 1 /\ data[1][2] = "" THEN data[1][1] ELSE None

\* _parse_ir_data (ir_receiver.py:133-147): only a line that starts with
\* "IR_DATA|" is parsed; the result is the text after "Raw:" of the first
\* part that starts with "Raw:"
ParseIrData(data) ==
    IF ~(Len(data) >= 2 /\ data[1] = Part("IR_DATA", ""))
       THEN None
       ELSE LET raws == {i \in 1..Len(data) : data[i][1] = "Raw:"}
            IN  IF raws = {} THEN None
                ELSE data[CHOOSE i \in raws : \A j \in raws : i <= j][2]

\* is_connected (ir_receiver.py:119)
IsConnected == serial_connection # None

\* connect (ir_receiver.py:80-99): serial.Serial opens the port, or raises
\* SerialException before the field is assigned and connect returns False
Connect ==
    /\ \E opened \in BOOLEAN :
          serial_connection' = IF opened THEN "open" ELSE serial_connection
    /\ UNCHANGED <<engine_vars, timers, down, main_vars, stop_vars, timer_vars,
                   hist_vars, receiving, receiver_thread, code_queue, arrived,
                   delivered, stop_calls, raised>>

\* start_receiving (ir_receiver.py:192-203)
StartReceiving ==
    /\ IF IsConnected /\ ~receiving
          THEN receiving' = TRUE /\ receiver_thread' = "alive"
          ELSE UNCHANGED <<receiving, receiver_thread>>
    /\ UNCHANGED <<engine_vars, timers, down, main_vars, stop_vars, timer_vars,
                   hist_vars, serial_connection, code_queue, arrived,
                   delivered, stop_calls, raised>>

\* _receiver_loop, lines 157-171: one turn of the loop that reads a line;
\* `if ir_code` drops None and the empty string
ReceiverLoop ==
    /\ receiver_thread = "alive"
    /\ receiving
    /\ IsConnected
    /\ Len(arrived) < MaxLines
    /\ \E data \in Lines :
          /\ arrived' = Append(arrived, data)
          /\ code_queue' =
                IF ParseIrData(data) \notin {None, ""}
                   THEN Append(code_queue, ParseIrData(data))
                   ELSE code_queue
    /\ UNCHANGED <<engine_vars, timers, down, main_vars, stop_vars, timer_vars,
                   hist_vars, serial_connection, receiving, receiver_thread,
                   delivered, stop_calls, raised>>

\* _receiver_loop, lines 176-179: the port raises SerialException
ReceiverLoopSerialError ==
    /\ receiver_thread = "alive"
    /\ receiving
    /\ IsConnected
    /\ receiving' = FALSE
    /\ receiver_thread' = "finished"
    /\ UNCHANGED <<engine_vars, timers, down, main_vars, stop_vars, timer_vars,
                   hist_vars, serial_connection, code_queue, arrived,
                   delivered, stop_calls, raised>>

\* _receiver_loop, line 157: the loop condition fails and the thread ends
ReceiverLoopExit ==
    /\ receiver_thread = "alive"
    /\ ~(receiving /\ IsConnected)
    /\ receiver_thread' = "finished"
    /\ UNCHANGED <<engine_vars, timers, down, main_vars, stop_vars, timer_vars,
                   hist_vars, serial_connection, receiving, code_queue,
                   arrived, delivered, stop_calls, raised>>

\* get_code (ir_receiver.py:232-235) returns the head of the queue
GetCode ==
    /\ code_queue # <<>>
    /\ delivered' = Append(delivered, Head(code_queue))
    /\ code_queue' = Tail(code_queue)
    /\ UNCHANGED <<engine_vars, timers, down, main_vars, stop_vars, timer_vars,
                   hist_vars, serial_connection, receiving, receiver_thread,
                   arrived, stop_calls, raised>>

\* stop_receiving (ir_receiver.py:209-220): the thread sees the flag within
\* its read timeout and is joined; the queue is emptied.  The histories
\* start again with the empty queue.
StopReceivingBody ==
    /\ receiving' = FALSE
    /\ receiver_thread' = None
    /\ code_queue' = <<>>
    /\ arrived' = <<>>
    /\ delivered' = <<>>

StopReceiving ==
    /\ StopReceivingBody
    /\ UNCHANGED <<engine_vars, timers, down, main_vars, stop_vars, timer_vars,
                   hist_vars, serial_connection, stop_calls, raised>>

\* disconnect (ir_receiver.py:105-110): close() may raise, the field is
\* set to None all the same; receiving is not written
DisconnectBody ==
    serial_connection' = IF IsConnected THEN None ELSE serial_connection

Disconnect ==
    /\ DisconnectBody
    /\ UNCHANGED <<engine_vars, timers, down, main_vars, stop_vars, timer_vars,
                   hist_vars, receiving, receiver_thread, code_queue, arrived,
                   delivered, stop_calls, raised>>

ReceiverNext ==
    \/ Connect \/ StartReceiving \/ ReceiverLoop \/ ReceiverLoopSerialError
    \/ ReceiverLoopExit \/ GetCode \/ StopReceiving \/ Disconnect

\* the receiver used on its own, from its construction on, the way
\* tests/test_ir_receiver.py uses it
ReceiverInit == EngineInit /\ ReceiverConstructed

ReceiverSpec == ReceiverInit /\ [][ReceiverNext]_vars

----------------------------------------------------------------------------
(* IRRemoteController.stop (main_controller.py:236-251) with               *)
(* KeyMapper.cleanup (key_mapper.py:297-306), and the signal handler.      *)

\* _signal_handler (main_controller.py:58-70): SIGINT or SIGTERM arrives
\* while run is executing; Python calls stop() on the main thread between
\* two statements of whatever run was doing.
Signal ==
    /\ ~signalled
    /\ spc = "none"
    /\ pc # "returned"
    /\ signalled' = TRUE
    /\ spc' = "s_begin"
    /\ UNCHANGED <<engine_vars, timers, down, main_vars, ctl_running,
                   s_snapshot, cleanup_done, timer_vars, hist_vars,
                   rest_vars>>

\* stop, lines 242-247: only a running controller is stopped
StopBegin ==
    /\ spc = "s_begin"
    /\ IF ctl_running
          THEN /\ ctl_running' = FALSE
               /\ StopReceivingBody
               /\ DisconnectBody
               /\ stop_calls' = stop_calls \o
                                    <<"stop_receiving", "disconnect", "cleanup">>
               /\ spc' = "s_cleanup"
          ELSE /\ ctl_running' = ctl_running
               /\ UNCHANGED <<receiver_vars, stop_calls>>
               /\ spc' = "none"
    /\ UNCHANGED <<engine_vars, timers, down, main_vars, s_snapshot,
                   signalled, cleanup_done, timer_vars, hist_vars, raised>>

\* cleanup, lines 300-302: cancel the timer, _reset_repeat_state
CleanupReset ==
    /\ spc = "s_cleanup"
    /\ timers' = CancelledTimers
    /\ first_repeat_time' = NoTime
    /\ repeat_started' = FALSE
    /\ last_repeat_action_time' = Saturated(repeat_rate)
    /\ last_code' = None
    /\ last_mapping' = None
    /\ spc' = "s_snap"
    /\ UNCHANGED <<flag_vars, currently_pressed, last_code_time, release_timer,
                   down, main_vars, ctl_running, s_snapshot, signalled,
                   cleanup_done, timer_vars, hist_vars,
                   rest_vars>>

\* cleanup, line 303: _release_all, lines 65-68
CleanupSnapshot ==
    /\ spc = "s_snap"
    /\ IF currently_pressed # {}
          THEN /\ s_snapshot' = currently_pressed
               /\ spc' = "s_release"
               /\ cleanup_done' = cleanup_done
          ELSE /\ s_snapshot' = {}
               /\ spc' = "none"
               /\ cleanup_done' = TRUE
    /\ UNCHANGED <<engine_vars, timers, down, main_vars, ctl_running,
                   signalled, timer_vars, hist_vars,
                   rest_vars>>

\* _release_all, lines 68-72
CleanupReleaseKeys ==
    /\ spc = "s_release"
    /\ down' = down \ s_snapshot
    /\ spc' = "s_clear"
    /\ UNCHANGED <<engine_vars, timers, main_vars, ctl_running, s_snapshot,
                   signalled, cleanup_done, timer_vars, hist_vars,
                   rest_vars>>

\* _release_all, line 73; cleanup and stop return
CleanupClear ==
    /\ spc = "s_clear"
    /\ currently_pressed' = {}
    /\ s_snapshot' = {}
    /\ cleanup_done' = TRUE
    /\ spc' = "none"
    /\ UNCHANGED <<flag_vars, last_code, last_mapping, last_code_time,
                   first_repeat_time, last_repeat_action_time, repeat_started,
                   release_timer, timers, down, main_vars, ctl_running,
                   signalled, timer_vars, hist_vars,
                   rest_vars>>

----------------------------------------------------------------------------
(* _auto_release called as a whole between two calls of process_code, the  *)
(* way tests/test_key_mapper.py:109-120 calls it: key_mapper.py:89-104     *)
(* without any interleaving.                                               *)
AutoRelease ==
    /\ pc = "loop"
    /\ spc = "none"
    /\ tpc = "idle"
    /\ \E d \in timers :
          /\ d <= Now
          /\ timers' = timers \ {d}
    /\ IF IsStale(Now)
          THEN /\ down' = down \ currently_pressed
               /\ currently_pressed' = {}
               /\ first_repeat_time' = NoTime
               /\ repeat_started' = FALSE
               /\ last_repeat_action_time' = Saturated(repeat_rate)
               /\ last_code' = None
               /\ last_mapping' = None
          ELSE UNCHANGED <<down, currently_pressed, first_repeat_time,
                           repeat_started, last_repeat_action_time, last_code,
                           last_mapping>>
    /\ UNCHANGED <<flag_vars, last_code_time, release_timer, main_vars,
                   stop_vars, timer_vars, hist_vars,
                   rest_vars>>

----------------------------------------------------------------------------
\* process_code for a Single, Combo or Sequence code
PressPath ==
    \/ ProcessKeyCode \/ DecidePress \/ ReleaseAllSnapshot \/ ReleaseAllKeys
    \/ ReleaseAllClear \/ ResetForNewPress \/ InitialPress \/ InitialAdd
    \/ RecordLastCode \/ RecordAndSchedule

\* process_code for the REPEAT sentinel
RepeatPath ==
    \/ ProcessRepeatToken \/ RepeatCheckActive \/ RepeatRefresh
    \/ RepeatFirst \/ RepeatSinceFirst \/ RepeatStart \/ RepeatRate
    \/ RepeatAction \/ RepeatPress \/ RepeatDone

\* the run loop around process_code
RunLoop == LoopSleep \/ PollNone \/ LoopRaise \/ LoopExit \/ Finally

MainThread ==
    PressPath \/ RepeatPath \/ ProcessUnmapped \/ ProcessSpecial \/ RunLoop

StopFrame ==
    \/ StopBegin \/ CleanupReset \/ CleanupSnapshot \/ CleanupReleaseKeys
    \/ CleanupClear

\* the program while no SIGINT/SIGTERM is delivered
Next == MainThread \/ StopFrame \/ TimerThread \/ Tick

Spec == Init /\ [][Next]_vars

\* the engine driven from one thread: process_code, _auto_release and
\* cleanup are called one after the other
OneThreadNext == MainThread \/ StopFrame \/ AutoRelease \/ Tick

OneThreadSpec == Init /\ [][OneThreadNext]_vars

----------------------------------------------------------------------------
(* The engine's interface used directly, the way tests/test_key_mapper.py  *)
(* uses it: disable(), cleanup() and process_code called one after the     *)
(* other on one thread.                                                    *)

\* disable (key_mapper.py:42-43)
Disable ==
    /\ pc = "loop"
    /\ spc = "none"
    /\ running
    /\ running' = FALSE
    /\ UNCHANGED <<ghost_key_enabled, single_tapping_enabled, repeat_enabled,
                   currently_pressed, last_code, last_mapping, last_code_time,
                   first_repeat_time, last_repeat_action_time, repeat_started,
                   release_timer, timers, down, main_vars, stop_vars,
                   timer_vars, hist_vars,
                   rest_vars>>

\* process_code, lines 110-111: the mapper is disabled, return False
ProcessDisabled ==
    /\ pc = "loop"
    /\ spc = "none"
    /\ ctl_running
    /\ ~running
    /\ \E t \in Tokens : ReturnsFrom(t, FALSE)
    /\ UNCHANGED <<engine_vars, timers, down, last_release_time, current_time,
                   key_idx, snapshot, time_since_first_repeat, rp_mapping,
                   stop_vars, timer_vars, hold_first_repeat, signals_close,
                   rest_vars>>

\* cleanup (key_mapper.py:297-306) called on the engine itself
CleanupCall ==
    /\ pc = "loop"
    /\ spc = "none"
    /\ spc' = "s_cleanup"
    /\ UNCHANGED <<engine_vars, timers, down, main_vars, ctl_running,
                   s_snapshot, signalled, cleanup_done, timer_vars, hist_vars,
                   rest_vars>>

\* process_code called with the code of one of the other controls
ProcessOtherSpecial ==
    CanPoll /\ \E t \in DOMAIN mappings \ PolledControls : HandleSpecial(t)

EngineNext ==
    \/ OneThreadNext \/ Disable \/ ProcessDisabled \/ CleanupCall
    \/ ProcessOtherSpecial

EngineSpec == Init /\ [][EngineNext]_vars

----------------------------------------------------------------------------
(* The actuator fails: a call of keyboard.press, keyboard.release or       *)
(* keyboard.press_and_release raises (tests/test_key_mapper.py:90-98,      *)
(* 397-427).  What a raising call has done to the key is not known: the    *)
(* key is as before, or as any event of the call leaves it.                *)

MaxFaults == 2

\* the keyboard after a call that returns
After(d, call) ==
    IF call[1] = "press" THEN d \cup Range(call[2]) ELSE d \ Range(call[2])

RECURSIVE DownAfter(_, _)
\* the keyboard after a list of calls that return
DownAfter(d, calls) ==
    IF calls = <<>> THEN d ELSE DownAfter(After(d, Head(calls)), Tail(calls))

\* the keyboards a raising call can leave
RaisedOutcomes(d, call) ==
    {d, After(d, call)} \cup
    (IF call[1] = "press_and_release" THEN {d \cup Range(call[2])} ELSE {})

\* the calls of the list are made in order and call number i raises
RaisingRun(calls, i) ==
    /\ raised < MaxFaults
    /\ raised' = raised + 1
    /\ executed' = (executed \o SubSeq(calls, 1, i - 1)) \o
                      <<Append(calls[i], "raised")>>
    /\ down' \in RaisedOutcomes(DownAfter(down, SubSeq(calls, 1, i - 1)), calls[i])

\* an exception that leaves the function it was raised in
Propagated(next) == Goto("finally")

\* `except Exception` of _execute_initial_press (lines 214-216) and of
\* _execute_repeat_action (lines 252-254): the function returns normally
Caught(next) == Goto(next)

\* the calls _execute_initial_press makes at pc = "ip_press": the tap, the
\* sequence, or the press of the next key
InitialPressCalls ==
    IF single_tapping_enabled THEN ExecuteTap(ir_code)
    ELSE IF mappings[ir_code].action_type = "sequence"
            THEN ExecuteSequence(ir_code)
            ELSE <<Call("press", <<mappings[ir_code].keys[key_idx]>>)>>

\* _execute_initial_press, lines 194-216: a call raises; line 200/206/209
\* (currently_pressed.add) and the keys that follow are skipped
InitialPressRaises ==
    /\ pc = "ip_press"
    /\ spc = "none"
    /\ acted' = TRUE
    /\ \E i \in 1..Len(InitialPressCalls) : RaisingRun(InitialPressCalls, i)
    /\ Caught("p_record_code")
    /\ UNCHANGED <<engine_vars, timers, last_release_time, current_time,
                   key_idx, snapshot, time_since_first_repeat, rp_mapping,
                   stop_vars, timer_vars, fires_in_call, hold_first_repeat,
                   signals_close, receiver_vars, stop_calls>>

\* the calls _execute_repeat_action makes at pc = "rp_exec"
RepeatActionCalls ==
    IF single_tapping_enabled THEN ExecuteTap(rp_mapping)
    ELSE IF mappings[rp_mapping].action_type = "sequence"
            THEN ExecuteSequence(rp_mapping)
            ELSE CallPerKey("release", mappings[rp_mapping].keys)

\* _execute_repeat_action, lines 220-254: a tap or a release raises; the
\* presses of lines 231, 240, 243 are skipped
RepeatActionRaises ==
    /\ pc = "rp_exec"
    /\ spc = "none"
    /\ rp_mapping # None
    /\ fires_in_call' = fires_in_call + 1
    /\ acted' = TRUE
    /\ \E i \in 1..Len(RepeatActionCalls) : RaisingRun(RepeatActionCalls, i)
    /\ Caught("rp_done")
    /\ UNCHANGED <<engine_vars, timers, last_release_time, current_time,
                   key_idx, snapshot, time_since_first_repeat, rp_mapping,
                   stop_vars, timer_vars, hold_first_repeat, signals_close,
                   receiver_vars, stop_calls>>

\* _execute_repeat_action, lines 231, 239-240, 243: a press raises
RepeatPressRaises ==
    /\ pc = "rp_press"
    /\ spc = "none"
    /\ \E i \in 1..Len(mappings[rp_mapping].keys) :
          RaisingRun(CallPerKey("press", mappings[rp_mapping].keys), i)
    /\ Caught("rp_done")
    /\ UNCHANGED <<engine_vars, timers, last_release_time, current_time,
                   key_idx, snapshot, time_since_first_repeat, rp_mapping,
                   stop_vars, timer_vars, acted, fires_in_call,
                   hold_first_repeat, signals_close, receiver_vars,
                   stop_calls>>

\* _release_all, lines 68-72, when keyboard.release raises for some of the
\* keys: the bare except passes and the loop goes on
ReleaseRaises(keys) ==
    /\ raised < MaxFaults
    /\ raised' = raised + 1
    /\ \E failed \in SUBSET keys \ {{}} : \E kept \in SUBSET failed :
          down' = down \ (keys \ kept)

\* _release_all called at line 131
ReleaseAllKeysRaises ==
    /\ pc = "ra_release"
    /\ spc = "none"
    /\ ReleaseRaises(snapshot)
    /\ acted' = TRUE
    /\ Goto("ra_clear")
    /\ UNCHANGED <<engine_vars, timers, last_release_time, current_time,
                   key_idx, snapshot, time_since_first_repeat, rp_mapping,
                   stop_vars, timer_vars, executed, fires_in_call,
                   hold_first_repeat, signals_close, receiver_vars,
                   stop_calls>>

\* _release_all called by cleanup (line 303)
CleanupReleaseKeysRaises ==
    /\ spc = "s_release"
    /\ ReleaseRaises(s_snapshot)
    /\ spc' = "s_clear"
    /\ UNCHANGED <<engine_vars, timers, main_vars, ctl_running, s_snapshot,
                   signalled, cleanup_done, timer_vars, hist_vars,
                   receiver_vars, stop_calls>>

\* _auto_release (lines 89-96) called as a whole, with _release_all
\* meeting a raising release
AutoReleaseRaises ==
    /\ pc = "loop"
    /\ spc = "none"
    /\ tpc = "idle"
    /\ \E d \in timers :
          /\ d <= Now
          /\ timers' = timers \ {d}
    /\ IsStale(Now)
    /\ currently_pressed # {}
    /\ ReleaseRaises(currently_pressed)
    /\ currently_pressed' = {}
    /\ first_repeat_time' = NoTime
    /\ repeat_started' = FALSE
    /\ last_repeat_action_time' = Saturated(repeat_rate)
    /\ last_code' = None
    /\ last_mapping' = None
    /\ UNCHANGED <<flag_vars, last_code_time, release_timer, main_vars,
                   stop_vars, timer_vars, hist_vars, receiver_vars,
                   stop_calls>>

ActuatorRaises ==
    \/ InitialPressRaises \/ RepeatActionRaises \/ RepeatPressRaises
    \/ ReleaseAllKeysRaises \/ CleanupReleaseKeysRaises \/ AutoReleaseRaises

FaultyNext == OneThreadNext \/ ActuatorRaises

\* the engine driven from one thread, with a keyboard that can fail
FaultySpec == Init /\ [][FaultyNext]_vars

----------------------------------------------------------------------------
(* Codes that differ from a code of the table in the case of a letter.     *)

\* str.lower() on the tokens of the model
Lower(token) ==
    CASE token = "0X1" -> "0x1"
      [] token = "0X3" -> "0x3"
      [] token = "0xFF" -> "0xff"
      [] OTHER -> token

\* tokens that are not written the way the table writes them
CaseVariantTokens == {"0X1", "0X3", "0xFF"}

\* self.mappings.get(ir_code) (key_mapper.py:117): the dict is searched for
\* the token as it is
Lookup(token) == IF token \in DOMAIN mappings THEN token ELSE None

\* process_code, lines 117-121, called with such a token: the mapping that
\* get() returns decides; None returns False
ProcessCaseVariant ==
    /\ CanPoll
    /\ \E t \in CaseVariantTokens :
          /\ Lookup(t) = None
          /\ ReturnsFrom(t, FALSE)
    /\ current_time' = Now
    /\ UNCHANGED <<engine_vars, timers, down, last_release_time, key_idx,
                   snapshot, time_since_first_repeat, rp_mapping, stop_vars,
                   timer_vars, hold_first_repeat, signals_close, rest_vars>>

CaseNext == OneThreadNext \/ ProcessCaseVariant

\* the engine driven from one thread by a source that may write a code in
\* either case
CaseSpec == Init /\ [][CaseNext]_vars

----------------------------------------------------------------------------
(* IRRemoteController.run (main_controller.py:183-234) polling the         *)
(* receiver's queue and feeding the engine.                                *)

\* a queue that hands out its newest entry first
PolledNewest(queue) == IF queue = <<>> THEN None ELSE queue[Len(queue)]

\* Queue.get behind get_code (ir_receiver.py:222-235): the oldest queued code,
\* or None when the queue stays empty for the timeout
Polled(queue) == IF queue = <<>> THEN None ELSE Head(queue)

\* run, lines 190-196: a controller that was not started returns at once; a
\* started one notes the time and enters the loop
RunBegin ==
    /\ pc = "run_entry"
    /\ spc = "none"
    /\ IF ctl_running
          THEN pc' = "loop" /\ last_release_time' = Now
          ELSE pc' = "returned" /\ last_release_time' = last_release_time
    /\ UNCHANGED <<engine_vars, timers, down, ir_code, current_time, key_idx,
                   snapshot, time_since_first_repeat, rp_mapping, stop_vars,
                   timer_vars, hist_vars, rest_vars>>

\* run, lines 198-201: the loop test and receiver.get_code(timeout=0.01)
RunGetCode ==
    /\ pc = "loop"
    /\ spc = "none"
    /\ ctl_running
    /\ ir_code' = Polled(code_queue)
    /\ IF code_queue = <<>>
          THEN UNCHANGED <<code_queue, delivered>>
          ELSE /\ code_queue' = Tail(code_queue)
               /\ delivered' = Append(delivered, Head(code_queue))
    /\ pc' = "polled"
    /\ UNCHANGED <<engine_vars, timers, down, last_release_time, current_time,
                   key_idx, snapshot, time_since_first_repeat, rp_mapping,
                   stop_vars, timer_vars, hist_vars, serial_connection,
                   receiving, receiver_thread, arrived, stop_calls, raised>>

\* run, lines 203-215: a code is handed to mapper.process_code, which starts
\* as key_mapper.py:110-127 has it
RunProcessCode ==
    /\ pc = "polled"
    /\ spc = "none"
    /\ ir_code # None
    /\ IF ~running
          THEN /\ ReturnsFrom(ir_code, FALSE)
               /\ UNCHANGED <<engine_vars, timers, down, last_release_time,
                              current_time, key_idx, snapshot,
                              time_since_first_repeat, rp_mapping, stop_vars,
                              timer_vars, hold_first_repeat, signals_close,
                              rest_vars>>
       ELSE IF ir_code = REPEAT
          THEN /\ current_time' = Now
               /\ pc' = "h_check"
               /\ UNCHANGED <<engine_vars, timers, down, last_release_time,
                              ir_code, key_idx, snapshot,
                              time_since_first_repeat, rp_mapping, stop_vars,
                              timer_vars, hist_vars, rest_vars>>
       ELSE IF ir_code \notin DOMAIN mappings
          THEN /\ ReturnsFrom(ir_code, FALSE)
               /\ current_time' = Now
               /\ UNCHANGED <<engine_vars, timers, down, last_release_time,
                              key_idx, snapshot, time_since_first_repeat,
                              rp_mapping, stop_vars, timer_vars,
                              hold_first_repeat, signals_close, rest_vars>>
       ELSE IF mappings[ir_code].action_type = "special"
          THEN HandleSpecial(ir_code)
          ELSE /\ current_time' = Now
               /\ pc' = "p_decide"
               /\ UNCHANGED <<engine_vars, timers, down, last_release_time,
                              ir_code, key_idx, snapshot,
                              time_since_first_repeat, rp_mapping, stop_vars,
                              timer_vars, hist_vars, rest_vars>>

\* run, lines 218-225: nothing was polled; after idle_release_interval the
\* loop calls mapper._release_all_keys(), a method KeyMapper does not have,
\* and the AttributeError leaves the loop through line 229 to the finally
RunIdle ==
    /\ pc = "polled"
    /\ spc = "none"
    /\ ir_code = None
    /\ pc' = IF (Now - last_release_time) * Grid > idle_release_interval
                THEN "finally" ELSE "loop"
    /\ UNCHANGED <<engine_vars, timers, down, last_release_time, ir_code,
                   current_time, key_idx, snapshot, time_since_first_repeat,
                   rp_mapping, stop_vars, timer_vars, hist_vars, rest_vars>>

RunNext ==
    \/ RunBegin \/ RunGetCode \/ RunProcessCode \/ RunIdle
    \/ DecidePress \/ ReleaseAllSnapshot \/ ReleaseAllKeys \/ ReleaseAllClear
    \/ ResetForNewPress \/ InitialPress \/ InitialAdd \/ RecordLastCode
    \/ RecordAndSchedule
    \/ RepeatCheckActive \/ RepeatRefresh \/ RepeatFirst \/ RepeatSinceFirst
    \/ RepeatStart \/ RepeatRate \/ RepeatAction \/ RepeatPress \/ RepeatDone
    \/ LoopSleep \/ Finally
    \/ StopFrame \/ AutoRelease \/ Tick \/ ReceiverLoop

\* run() is called on a controller that start() has or has not started
RunInit ==
    /\ MapperInit
    /\ pc = "run_entry"
    /\ \/ ctl_running = TRUE /\ ReceiverStarted
       \/ ctl_running = FALSE /\ ReceiverConstructed

\* the run loop polling the receiver's queue, with the receiver thread
\* filling it and the engine driven from the polling thread; no signal
\* arrives and the remote sends no stop button, so nothing requests a stop
RunSpec == RunInit /\ [][RunNext]_vars

\* the signal handler installed at main_controller.py:58-59, while the
\* remote sends button codes only
SignalNext ==
    PressPath \/ RunLoop \/ StopFrame \/ Signal \/ TimerThread \/ Tick

SignalSpec == Init /\ [][SignalNext]_vars

----------------------------------------------------------------------------
(* Properties.                                                             *)

\* no context is inside an operation of the engine
Quiescent == pc = "loop" /\ spc = "none" /\ tpc = "idle"

\* C1: after any sequence of process_code calls made on one thread and a
\* cleanup() that has returned, every key that was pressed has been released
\* again and currently_pressed is empty.
C1_CleanupReleasesEveryPressedKey ==
    (cleanup_done /\ spc = "none") => (down = {} /\ currently_pressed = {})

\* C2: under every interleaving of the timer callback with process_code and
\* cleanup, once no operation is in progress every key that is pressed and
\* not yet released is a member of currently_pressed.
C2_DownKeysAreTracked ==
    Quiescent => down \subseteq currently_pressed

\* the hold-mode buttons some key of which is down
ButtonsDown == {c \in DOMAIN mappings : IsHoldCode(c) /\ KeysOf(c) \cap down # {}}

\* C3: on every shutdown path of the run loop mapper.cleanup() has been
\* invoked by the time run() returns, so that no key the engine pressed is
\* down once run() has returned.
C3_NoKeyDownAfterRunReturns ==
    RunReturned => (cleanup_done /\ down = {})

\* C4: when a different button is processed while another button's keys are
\* held, the old keys are released before the new ones are pressed: at no
\* point are keys of two different buttons down together.
C4_OneButtonDownAtATime ==
    Cardinality(ButtonsDown) <= 1

\* C5: in every state between operations at most one button is held: if
\* currently_pressed is non-empty, last_code is set and every key in
\* currently_pressed is a key of last_mapping.
C5_PressedKeysBelongToLastMapping ==
    (Quiescent /\ currently_pressed # {}) =>
        /\ last_code # None
        /\ last_mapping # None
        /\ currently_pressed \subseteq KeysOf(last_mapping)

\* C6: if no token is processed after a hold-mode press, then once the
\* auto-release timer has fired and its callback has finished, the held keys
\* are released, currently_pressed is empty and last_code and last_mapping
\* are None.
C6_AutoReleaseReleasesTheHold ==
    (Quiescent /\ ctl_running /\ timers = {} /\ IsHoldCode(prev_code)
               /\ ~single_tapping_enabled) =>
        /\ down = {}
        /\ currently_pressed = {}
        /\ last_code = None
        /\ last_mapping = None

\* C7: a mapped non-special code processed a second time less than
\* release_timeout after the call that pressed it, with no token in
\* between, is ignored as a bounce: process_code goes from its decision
\* (lines 126-129) straight to return False.
C7_SecondCallIsBounce ==
    [][(/\ pc = "p_decide"
        /\ pc' # "p_decide"
        /\ ir_code = prev_code
        /\ (current_time - prev_time) * Grid < release_timeout)
       => pc' = "ret_false"]_vars

\* C8: the auto-release callback acts only if no fresher signal has been
\* recorded: whenever it releases keys, clears currently_pressed or resets
\* last_code, last_code_time is still stale.
C8_CallbackActsOnlyWhenStale ==
    [][(/\ tpc \in {"t_release", "t_clear", "t_reset3"}
        /\ tpc' # tpc
        /\ <<down, currently_pressed, last_code>>' #
           <<down, currently_pressed, last_code>>)
       => IsStale(Now)]_vars

\* C9: within one hold no repeat action fires on the first REPEAT nor on a
\* REPEAT processed less than initial_repeat_delay after the first REPEAT of
\* the hold, and a call fires at most one repeat action, for a REPEAT only.
C9_NoRepeatActionBeforeDelay ==
    pc = "rp_exec" =>
        /\ ir_code = REPEAT
        /\ fires_in_call = 0
        /\ hold_first_repeat # NoTime
        /\ (current_time - hold_first_repeat) * Grid >= initial_repeat_delay

\* a repeat action is about to fire for the mapping of the held button
C9_RepeatActionFires ==
    /\ pc = "rp_exec"
    /\ rp_mapping # None
    /\ currently_pressed # {}
    /\ hold_first_repeat # NoTime

\* C10: every REPEAT for an active button refreshes last_code_time and
\* restarts the timer, so while the signals of a hold arrive less than
\* release_timeout apart the held keys are not auto-released: the callback
\* releases keys of such a hold only when the last signal is release_timeout
\* old.
C10_NoAutoReleaseWhileRepeatsArrive ==
    [][(/\ tpc = "t_release"
        /\ tpc' = "t_clear"
        /\ down' # down
        /\ hold_first_repeat # NoTime
        /\ signals_close)
       => (Now - last_code_time) * Grid >= release_timeout]_vars

\* a call of process_code begins: the main thread leaves the loop head with
\* a token
CallBegins == pc = "loop" /\ pc' \notin {"loop", "finally"}

\* C11: after disable() every call of process_code, whatever the token,
\* returns False and has no effect: no actuator call, no change of
\* currently_pressed, last_code, the repeat fields or the mode flags, no
\* stop callback and no timer scheduled.
C11_DisabledCallHasNoEffect ==
    [][(~running /\ CallBegins) =>
          /\ pc' = "ret_false"
          /\ ~acted'
          /\ UNCHANGED <<engine_vars, timers, down, stop_vars>>]_vars

\* a disabled mapper has answered False to the code of a button while the
\* previous button is still held and its timer is pending
C11_DisabledCallReturned ==
    /\ pc = "ret_false"
    /\ ~running
    /\ ir_code = "0x2"
    /\ last_code = "0x1"
    /\ down = {"a"}
    /\ timers # {}

\* C12: once cleanup() has returned, later calls of process_code return
\* False without effect: no step returns True, presses a key or schedules a
\* timer.
C12_NoActivityAfterCleanup ==
    [][(cleanup_done /\ spc = "none") =>
          /\ pc' = "ret_true" => pc = "ret_true"
          /\ down' \subseteq down
          /\ Cardinality(timers') <= Cardinality(timers)]_vars

\* the engine as cleanup() leaves it: nothing tracked, no active button, the
\* repeat fields reset, no timer pending
CleanedUp ==
    /\ currently_pressed = {}
    /\ last_code = None
    /\ last_mapping = None
    /\ first_repeat_time = NoTime
    /\ ~repeat_started
    /\ last_repeat_action_time = Saturated(repeat_rate)
    /\ timers = {}

\* C13: cleanup() cancels the pending timer, resets last_code, last_mapping
\* and the repeat fields and releases every key of currently_pressed, once;
\* a cleanup() of an engine already cleaned up releases nothing and changes
\* nothing.
C13_CleanupIsIdempotent ==
    [][/\ spc = "s_cleanup" =>
             /\ timers' = {}
             /\ last_code' = None /\ last_mapping' = None
             /\ first_repeat_time' = NoTime /\ ~repeat_started'
       /\ spc = "s_release" =>
             /\ s_snapshot = currently_pressed
             /\ down' = down \ currently_pressed
             /\ spc' = "s_clear"
       /\ (spc \in {"s_snap", "s_clear"} /\ spc' = "none") => CleanedUp'
       /\ (CleanedUp /\ spc \in {"s_cleanup", "s_snap"}) =>
             /\ spc' \in {"s_snap", "none"}
             /\ UNCHANGED <<engine_vars, timers, down>>]_vars

\* cleanup() runs again on an engine that was cleaned up right after a
\* hold-mode press of the Combo
C13_SecondCleanupRuns ==
    /\ cleanup_done
    /\ spc = "s_snap"
    /\ CleanedUp
    /\ prev_code = "0x2"
    /\ prev_time = Now
    /\ ~single_tapping_enabled
    /\ down = {}

SpecialCodes == {t \in DOMAIN mappings : mappings[t].action_type = "special"}

\* a step of a process_code call for a Special code, from its first step
\* until it has returned
InSpecialCall == ir_code' \in SpecialCodes /\ pc' \in {"ret_true", "ret_false"}

\* what a Special action is said to leave alone
KeyStateUntouched ==
    /\ ~acted'
    /\ UNCHANGED <<down, currently_pressed, last_code, last_mapping,
                   last_code_time, first_repeat_time, last_repeat_action_time,
                   repeat_started>>

\* C14 as stated: while a Special code is processed no key is pressed or
\* released and currently_pressed, last_code, last_mapping, last_code_time
\* and the repeat fields do not change, also in the middle of a hold.
C14_SpecialCallTouchesNoKey == [][InSpecialCall => KeyStateUntouched]_vars

\* C14, amended: the engine's own step for a Special code touches no key and
\* none of those fields; it flips at most one mode flag or invokes the stop
\* callback.  Keys and fields change during the call only inside the stop
\* callback, where the controller's stop() runs cleanup().
C14_OnlyStopCallbackTouchesKeys ==
    [][InSpecialCall =>
          \/ /\ KeyStateUntouched
             /\ running' = running
             /\ timers' = timers
             /\ CallBegins =>
                   \/ /\ mappings[ir_code'].keys[1] = "stop"
                      /\ spc' = "s_begin"
                      /\ UNCHANGED <<ghost_key_enabled, single_tapping_enabled,
                                     repeat_enabled>>
                   \/ /\ spc' = spc
                      /\ \/ UNCHANGED <<single_tapping_enabled, repeat_enabled>>
                         \/ UNCHANGED <<ghost_key_enabled, repeat_enabled>>
                         \/ UNCHANGED <<ghost_key_enabled, single_tapping_enabled>>
          \/ /\ ir_code \in SpecialCodes
             /\ mappings[ir_code].keys[1] = "stop"
             /\ spc \in {"s_cleanup", "s_snap", "s_release", "s_clear"}]_vars

\* the tap toggle has been processed in the middle of the hold of button 0x1
C14_ToggleDuringHold ==
    /\ pc = "ret_true"
    /\ ir_code = "0x11"
    /\ single_tapping_enabled
    /\ last_code = "0x1"
    /\ currently_pressed = {"a"}
    /\ down = {"a"}
    /\ timers # {}

\* the control name of the Special code whose call begins
ControlBegun == mappings[ir_code'].keys[1]

\* C15: toggle_ghost, toggle_tap and toggle_repeat each flip their own flag,
\* leave the other two flags as they are and return True, so that the same
\* toggle applied twice restores the flag; an unknown control name changes
\* no flag and returns False.
C15_ToggleFlipsOnlyItsFlag ==
    [][(running /\ CallBegins /\ ir_code' \in SpecialCodes) =>
          /\ ControlBegun = "toggle_ghost" =>
                /\ ghost_key_enabled' = ~ghost_key_enabled
                /\ UNCHANGED <<single_tapping_enabled, repeat_enabled>>
                /\ pc' = "ret_true"
          /\ ControlBegun = "toggle_tap" =>
                /\ single_tapping_enabled' = ~single_tapping_enabled
                /\ UNCHANGED <<ghost_key_enabled, repeat_enabled>>
                /\ pc' = "ret_true"
          /\ ControlBegun = "toggle_repeat" =>
                /\ repeat_enabled' = ~repeat_enabled
                /\ UNCHANGED <<ghost_key_enabled, single_tapping_enabled>>
                /\ pc' = "ret_true"
          /\ ControlBegun = "unknown" =>
                /\ UNCHANGED <<ghost_key_enabled, single_tapping_enabled,
                               repeat_enabled>>
                /\ pc' = "ret_false"]_vars

\* toggle_ghost has just been applied to a flag that was on, which is now
\* off again as it was at construction, while tap mode is on
C15_GhostToggledBack ==
    /\ pc = "ret_true"
    /\ ir_code = "0x13"
    /\ ~ghost_key_enabled
    /\ single_tapping_enabled
    /\ repeat_enabled

\* C16: a code that is not in the mapping table returns False and changes
\* nothing: the keys of the current button stay held, last_code,
\* last_code_time and the repeat fields are unchanged and the release timer
\* is not rescheduled.
C16_UnmappedCodeChangesNothing ==
    [][(running /\ CallBegins /\ ir_code' \notin DOMAIN mappings \cup {REPEAT}) =>
          /\ pc' = "ret_false"
          /\ ~acted'
          /\ UNCHANGED <<engine_vars, timers, down, stop_vars>>]_vars

\* an unmapped code has been answered while the Combo is held and its timer
\* is pending
C16_UnmappedDuringHold ==
    /\ pc = "ret_false"
    /\ running
    /\ ir_code = "0xFF"
    /\ last_code = "0x2"
    /\ currently_pressed = {"ctrl", "c"}
    /\ down = {"ctrl", "c"}
    /\ timers # {}

\* no button is active: process_code has recorded none since construction,
\* the last auto-release or the last cleanup
NoActiveButton == last_code = None \/ last_mapping = None

\* C17: a REPEAT processed while no button is active returns False, makes no
\* actuator call, leaves last_code_time alone and schedules no timer; so
\* after an auto-release REPEAT tokens move no key until a mapped code is
\* processed.
C17_RepeatWithoutButtonIsIgnored ==
    [][(running /\ NoActiveButton /\ ir_code' = REPEAT /\ pc' # pc
        /\ pc \in {"loop", "h_check"}) =>
          /\ pc' = IF pc = "loop" THEN "h_check" ELSE "ret_false"
          /\ ~acted'
          /\ fires_in_call' = 0
          /\ UNCHANGED <<engine_vars, timers, down, stop_vars>>]_vars

\* a REPEAT has been answered False one timeout after a press, the hold
\* having ended by auto-release (no cleanup has run)
C17_RepeatAfterAutoRelease ==
    /\ pc = "ret_false"
    /\ ir_code = REPEAT
    /\ running
    /\ ~cleanup_done
    /\ NoActiveButton
    /\ last_code_time = Now - 1
    /\ ~single_tapping_enabled
    /\ down = {}
    /\ timers = {}

\* C18: while repeat_enabled is False a REPEAT for the active button is a
\* keep-alive only: it returns True, fires no repeat action however long the
\* hold lasts and leaves first_repeat_time and repeat_started as they are.
C18_RepeatDisabledIsKeepAlive ==
    [][(~repeat_enabled /\ ~NoActiveButton /\ ir_code' = REPEAT /\ pc' # pc
        /\ pc \in {"h_check", "h_refresh", "h_first"}) =>
          /\ pc' = CASE pc = "h_check" -> "h_refresh"
                     [] pc = "h_refresh" -> "h_first"
                     [] pc = "h_first" -> "ret_true"
          /\ ~acted'
          /\ fires_in_call' = 0
          /\ UNCHANGED <<first_repeat_time, repeat_started,
                         last_repeat_action_time, down, currently_pressed>>]_vars

\* with repeat disabled, a REPEAT of a hold whose first REPEAT is more than
\* initial_repeat_delay old has returned True and the key is still held,
\* no repeat having been tracked
C18_LongHoldWithoutRepeat ==
    /\ pc = "ret_true"
    /\ ir_code = REPEAT
    /\ ~repeat_enabled
    /\ last_code = "0x1"
    /\ down = {"a"}
    /\ hold_first_repeat # NoTime
    /\ (Now - hold_first_repeat) * Grid >= initial_repeat_delay
    /\ first_repeat_time = NoTime
    /\ ~repeat_started
    /\ last_code_time = Now

\* C19: in hold mode the initial press of a Combo (or Single) leaves
\* currently_pressed equal to exactly the set of the mapping's keys at the
\* moment process_code returns, so that a following cleanup() releases them.
C19_HoldPressTracksItsKeys ==
    [][(pc # "ret_true" /\ pc' = "ret_true" /\ IsHoldCode(ir_code')
        /\ ~single_tapping_enabled) =>
          currently_pressed' = KeysOf(ir_code')]_vars

\* the Sequence of the mapping table and the calls it stands for
SequenceCode == "0x3"
SequenceTaps == <<<<"press_and_release", <<"x">>>>, <<"press_and_release", <<"y">>>>>>

\* process_code returns in this step
CallReturns == pc \notin {"ret_true", "ret_false"} /\ pc' \in {"ret_true", "ret_false"}

\* C20: a call for a Sequence code that is accepted as a press (mapper
\* enabled, not a bounce) calls press_and_release once per key in list order
\* and nothing else, adds nothing to currently_pressed and returns True; a
\* repeat firing for a Sequence runs the same calls in the same order.
C20_SequenceTapsKeysInOrder ==
    [][/\ (running /\ CallReturns /\ ir_code' = SequenceCode) =>
             IF pc = "p_decide" /\ ~IsNewButton /\ ~IsAfterTimeout
                THEN pc' = "ret_false" /\ executed' = <<>>
                ELSE /\ pc' = "ret_true"
                     /\ executed' = SequenceTaps
                     /\ currently_pressed' \cap {"x", "y"} = {}
       /\ (pc = "ip_press" /\ pc' # pc /\ ir_code = SequenceCode) =>
             /\ executed = <<>>
             /\ executed' = SequenceTaps
             /\ UNCHANGED currently_pressed
             /\ down' = down \ {"x", "y"}
       /\ (pc = "rp_exec" /\ pc' # pc /\ rp_mapping = SequenceCode) =>
             /\ executed' = executed \o SequenceTaps
             /\ fires_in_call' = fires_in_call + 1
             /\ UNCHANGED currently_pressed
             /\ down' = down \ {"x", "y"}]_vars

\* a REPEAT of the Sequence button has fired a repeat in hold mode: the
\* sequence was run once more and nothing is tracked or held
C20_SequenceRepeated ==
    /\ pc = "ret_true"
    /\ ir_code = REPEAT
    /\ fires_in_call = 1
    /\ last_mapping = SequenceCode
    /\ ~single_tapping_enabled
    /\ executed = SequenceTaps
    /\ currently_pressed = {}
    /\ down = {}

\* the press_and_release calls a tap of each button stands for
ExpectedTaps ==
    ("0x1" :> <<<<"press_and_release", <<"a">>>>>>) @@
    ("0x2" :> <<<<"press_and_release", <<"ctrl", "c">>>>>>) @@
    ("0x3" :> <<<<"press_and_release", <<"x">>>>, <<"press_and_release", <<"y">>>>>>)

\* C21: while single_tapping_enabled is on, every initial press and every
\* repeat firing of a Single, Combo or Sequence is executed through
\* press_and_release only (a Combo's key list as one call on the joined
\* keys); no step of the polling thread calls press or release for the
\* action or extends currently_pressed, and the tapped keys are left up.
C21_TapModeOnlyTaps ==
    [][(single_tapping_enabled /\ pc' # pc) =>
          /\ currently_pressed' \subseteq currently_pressed
          /\ \A i \in (Len(executed) + 1)..Len(executed') :
                executed'[i][1] = "press_and_release"
          /\ pc = "ip_press" =>
                /\ executed' = executed \o ExpectedTaps[ir_code]
                /\ down' = down \ KeysOf(ir_code)
          /\ (pc = "rp_exec" /\ rp_mapping # None) =>
                /\ executed' = executed \o ExpectedTaps[rp_mapping]
                /\ down' = down \ KeysOf(rp_mapping)]_vars

\* in tap mode a REPEAT of the Combo button has fired a repeat: one tap of
\* the joined keys, nothing tracked, nothing held
C21_ComboTapRepeated ==
    /\ pc = "ret_true"
    /\ ir_code = REPEAT
    /\ single_tapping_enabled
    /\ fires_in_call = 1
    /\ last_mapping = "0x2"
    /\ executed = <<<<"press_and_release", <<"ctrl", "c">>>>>>
    /\ currently_pressed = {}
    /\ down = {}


\* the neutral key of the ghost-key option (config_manager.py:82)
GhostKey == "f10"

\* the calls of the log that are made on the ghost key
GhostCalls == {i \in 1..Len(executed) : GhostKey \in Range(executed[i][2])}

\* C22: when ghost_key_enabled is on, a call accepted as a new press has
\* executed, after the action, a press-then-release of the ghost key; when
\* it is off no call on the ghost key is made.
C22_GhostKeyFollowsNewPress ==
    /\ (pc = "ret_true" /\ IsKeyCode(ir_code) /\ ghost_key_enabled) =>
          \/ /\ Len(executed) >= 2
             /\ executed[Len(executed) - 1] = <<"press", <<GhostKey>>>>
             /\ executed[Len(executed)] = <<"release", <<GhostKey>>>>
          \/ /\ Len(executed) >= 1
             /\ executed[Len(executed)] = <<"press_and_release", <<GhostKey>>>>
    /\ ~ghost_key_enabled => GhostCalls = {}


\* a step in which an actuator call raises
CallRaises == raised' > raised

\* C23: an actuator call that raises during an initial press, a repeat
\* action or _release_all does not leave process_code, the callback or
\* cleanup: the function goes on after its except clause and the run loop
\* is not left; _release_all goes on to empty currently_pressed; the engine
\* stays enabled, so that later tokens are processed.
C23_ActuatorFailureIsAbsorbed ==
    [][/\ CallRaises =>
             /\ pc' # "finally"
             /\ running' = running /\ ctl_running' = ctl_running
             /\ pc = "ip_press" => pc' = "p_record_code"
             /\ pc \in {"rp_exec", "rp_press"} => pc' = "rp_done"
             /\ pc = "ra_release" => pc' = "ra_clear"
             /\ spc = "s_release" => spc' = "s_clear"
             /\ (pc = "loop" /\ spc = "none") => currently_pressed' = {}
       /\ (pc = "ra_clear" /\ pc' # pc) =>
             (pc' = "p_reset" /\ currently_pressed' = {})
       /\ (spc = "s_clear" /\ spc' # spc) =>
             (spc' = "none" /\ currently_pressed' = {})
       /\ (pc \in {"p_record_time", "rp_done"} /\ pc' # pc) => pc' = "ret_true"
      ]_vars

\* two actuator calls have raised in earlier calls, _release_all has
\* emptied the set, and the engine has since accepted a Combo press and
\* holds its keys
C23_PressAfterFailures ==
    /\ raised = MaxFaults
    /\ pc = "ret_true"
    /\ ir_code = "0x2"
    /\ executed = <<<<"press", <<"ctrl">>>>, <<"press", <<"c">>>>>>
    /\ currently_pressed = {"ctrl", "c"}
    /\ "a" \in down


\* the last actuator call of the finished call was a press that raised
LastPressRaised ==
    /\ executed # <<>>
    /\ Len(executed[Len(executed)]) = 3
    /\ executed[Len(executed)][1] = "press"

\* C24: when a press raises during the initial press of a Single or Combo
\* mapping, the key whose press was attempted is in currently_pressed when
\* process_code returns, so that auto-release or cleanup will release it.
C24_FailedPressIsTracked ==
    (pc = "ret_true" /\ IsHoldCode(ir_code) /\ LastPressRaised) =>
        Range(executed[Len(executed)][2]) \subseteq currently_pressed


\* C25: the lookup ignores letter case: process_code called with a
\* letter-case variant of a key code of the table, on an engine that holds
\* no button, acts as for the code itself and so does not return False.
C25_LookupIgnoresLetterCase ==
    ~(/\ pc = "ret_false"
      /\ ir_code \in CaseVariantTokens
      /\ IsKeyCode(Lower(ir_code))
      /\ last_code = None)


\* C26: every key in currently_pressed is a key whose last actuator call
\* made by the engine was a press, none was last released or tapped; in
\* particular when a REPEAT has fired a repeat action for a held button.
C26_TrackedKeysAreDown ==
    (/\ pc = "ret_true"
     /\ ir_code = REPEAT
     /\ fires_in_call = 1
     /\ spc = "none"
     /\ tpc = "idle") =>
        currently_pressed \subseteq down


\* how often stop() has called the method
StopCallCount(method) ==
    Cardinality({i \in 1..Len(stop_calls) : stop_calls[i] = method})

\* C27: once stop() has returned on a controller that was running, running
\* is False and receiver.disconnect(), mapper.disable() and mapper.cleanup()
\* have been called exactly once each, however many stop() calls followed.
C27_StopCallsEachCollaboratorOnce ==
    (~ctl_running /\ spc = "none") =>
        /\ StopCallCount("disconnect") = 1
        /\ StopCallCount("disable") = 1
        /\ StopCallCount("cleanup") = 1


\* the token a line stands for: the REPEAT sentinel for a "REPEAT" line,
\* the code for a line that carries a button code, nothing for a status line
ExpectedToken(data) ==
    IF data \in StatusLines THEN None
    ELSE IF ParseBareLine(data) # None THEN ParseBareLine(data)
    ELSE ParseIrData(data)

RECURSIVE ExpectedTokens(_)
\* the tokens a list of lines stands for, in order
ExpectedTokens(datas) ==
    IF datas = <<>> THEN <<>>
    ELSE (IF ExpectedToken(Head(datas)) \in {None, ""}
             THEN <<>> ELSE <<ExpectedToken(Head(datas))>>)
         \o ExpectedTokens(Tail(datas))

\* C28: the tokens get_code has returned, followed by those still queued,
\* are the tokens of the lines that arrived, in arrival order: REPEAT for a
\* "REPEAT" line, the code for a line carrying a button code, and nothing
\* for a status line.
C28_LinesAreDeliveredAsTokens ==
    delivered \o code_queue = ExpectedTokens(arrived)


\* C29: once disconnect() has been called on a receiver that was connected
\* and receiving, receiving is False and serial_connection is None.
C29_DisconnectStopsReceiving ==
    [][(IsConnected /\ receiving /\ serial_connection' = None) =>
          (~receiving' /\ serial_connection' = None)]_vars


\* the repeat-tracking state of the hold
HoldPhase(first, started) ==
    IF first = NoTime THEN (IF started THEN "none" ELSE "Held-Initial")
    ELSE (IF started THEN "Held-Repeating" ELSE "Held-Pending")

\* C30: between two calls and outside the callback, repeat_started is never
\* True while first_repeat_time is None.
C30_StartedOnlyAfterFirstRepeat ==
    Quiescent => HoldPhase(first_repeat_time, repeat_started) # "none"


\* C31: once repeating has started, a REPEAT fires a repeat action exactly
\* when at least repeat_rate has passed since last_repeat_action_time; a
\* REPEAT that comes sooner fires nothing, returns True and has refreshed
\* last_code_time and the timer; on the polling thread's steps of a REPEAT
\* call last_repeat_action_time changes only after an action has fired.
C31_RepeatRateLimitsFirings ==
    [][(pc' # pc /\ ir_code = REPEAT) =>
          /\ pc = "h_rate" =>
                /\ last_code_time = current_time
                /\ TimerExpiry \in timers
                /\ IF (current_time - last_repeat_action_time) * Grid >= repeat_rate
                      THEN pc' = "rp_exec" /\ fires_in_call = 0
                      ELSE /\ pc' = "ret_true"
                           /\ fires_in_call' = 0
                           /\ executed' = <<>>
                           /\ UNCHANGED <<down, currently_pressed>>
          /\ last_repeat_action_time' # last_repeat_action_time =>
                (pc = "rp_done" /\ fires_in_call = 1
                 /\ last_repeat_action_time' = current_time)
      ]_vars

\* a REPEAT of a hold that is repeating came in the tick of the last
\* firing: it has returned True, fired nothing and refreshed the hold
C31_RepeatTooSoon ==
    /\ pc = "ret_true"
    /\ ir_code = REPEAT
    /\ repeat_enabled
    /\ repeat_started
    /\ fires_in_call = 0
    /\ last_repeat_action_time = Now
    /\ last_code_time = Now
    /\ currently_pressed = {"a"}
    /\ down = {"a"}


\* the calls that release and that press again the keys of a held button
ExpectedReleases ==
    ("0x1" :> <<<<"release", <<"a">>>>>>) @@
    ("0x2" :> <<<<"release", <<"ctrl">>>>, <<"release", <<"c">>>>>>)

ExpectedPresses ==
    ("0x1" :> <<<<"press", <<"a">>>>>>) @@
    ("0x2" :> <<<<"press", <<"ctrl">>>>, <<"press", <<"c">>>>>>)

\* C32: in hold mode a repeat firing for a Single calls release(key) and
\* then press(key); for a list Combo it calls release on every key in list
\* order and then press on every key in list order; no step of the firing
\* changes currently_pressed.
C32_HoldRepeatReEdgesKeys ==
    [][(/\ pc' # pc
        /\ ~single_tapping_enabled
        /\ IsHoldCode(rp_mapping)) =>
          /\ pc = "rp_exec" =>
                /\ executed = <<>>
                /\ executed' = ExpectedReleases[rp_mapping]
                /\ down' = down \ KeysOf(rp_mapping)
                /\ pc' = "rp_press"
                /\ UNCHANGED currently_pressed
          /\ pc = "rp_press" =>
                /\ executed' = executed \o ExpectedPresses[rp_mapping]
                /\ down' = down \cup KeysOf(rp_mapping)
                /\ pc' = "rp_done"
                /\ UNCHANGED currently_pressed
          /\ pc = "rp_done" =>
                /\ executed = ExpectedReleases[rp_mapping] \o
                                 ExpectedPresses[rp_mapping]
                /\ pc' = "ret_true"
                /\ UNCHANGED <<executed, down, currently_pressed>>
      ]_vars

\* a REPEAT has fired a repeat of the held Combo in hold mode: both keys
\* were released and pressed again, and both are tracked and down
C32_ComboReEdged ==
    /\ pc = "ret_true"
    /\ ir_code = REPEAT
    /\ ~single_tapping_enabled
    /\ fires_in_call = 1
    /\ executed = <<<<"release", <<"ctrl">>>>, <<"release", <<"c">>>>,
                    <<"press", <<"ctrl">>>>, <<"press", <<"c">>>>>>
    /\ currently_pressed = {"ctrl", "c"}
    /\ down = {"ctrl", "c"}


\* C33: at most one auto-release timer is outstanding at any time; a new
\* press and a REPEAT for an active button cancel the previous timer and arm
\* one for release_timeout from now; when process_code has returned with
\* keys in currently_pressed, and neither stop() nor a callback is running,
\* a timer is armed.
C33_OneTimerOutstanding ==
    [][/\ Cardinality(timers') <= 1
       /\ (pc' # pc /\ pc \in {"p_record_time", "h_refresh"}) =>
             /\ timers' = {Now + release_timeout}
             /\ release_timer' = Now + release_timeout
       /\ (pc' \in {"ret_true", "ret_false"} /\ spc' = "none" /\ tpc' = "idle"
           /\ currently_pressed' # {}) => timers' # {}
      ]_vars

\* a REPEAT of a hold that has lasted more than a tick has returned: the
\* timer of the earlier signal was cancelled and one timer is armed
C33_TimerRearmedByRepeat ==
    /\ pc = "ret_true"
    /\ ir_code = REPEAT
    /\ currently_pressed = {"a"}
    /\ hold_first_repeat < Now
    /\ last_code_time = Now
    /\ timers = {Now + release_timeout}


\* the time left on a timer armed at the last signal
DueAfterLastSignal ==
    IF release_timeout - (Now - last_code_time) * Grid > 0
       THEN release_timeout - (Now - last_code_time) * Grid
       ELSE 0

\* C34: the code of the active button arriving again within release_timeout
\* is ignored: process_code returns False, leaves last_code_time, the timer,
\* the keys and the bookkeeping as they are, and the timer that is armed
\* (no callback running) is still the one due release_timeout after the
\* last new press or REPEAT.
C34_DuplicateDoesNotExtendHold ==
    [][(/\ pc = "p_decide"
        /\ pc' # pc
        /\ ir_code = last_code
        /\ (current_time - last_code_time) * Grid <= release_timeout) =>
          /\ pc' = "ret_false"
          /\ UNCHANGED <<last_code_time, release_timer, timers,
                         currently_pressed, down, last_code, last_mapping,
                         first_repeat_time, repeat_started,
                         last_repeat_action_time>>
          /\ ~acted' /\ executed' = <<>>
          /\ (tpc = "idle" /\ currently_pressed # {}) =>
                timers = {DueAfterLastSignal}
      ]_vars

\* the code of the held button came again one tick after the press and was
\* ignored: last_code_time is the time of the press and the timer, not
\* rescheduled, is due
C34_DuplicateIgnoredDuringHold ==
    /\ pc = "ret_false"
    /\ ir_code = "0x1"
    /\ last_code = "0x1"
    /\ currently_pressed = {"a"}
    /\ down = {"a"}
    /\ last_code_time = Now - 1
    /\ timers = {0}


\* the positions of run() outside a call of mapper.process_code
OutsideProcessCode == {"run_entry", "loop", "polled", "finally", "returned"}

\* C35: while running, the run loop hands every code returned by
\* receiver.get_code to mapper.process_code exactly once and in the order
\* received, makes no process_code call for a poll that returned None, and
\* run() called while not running returns at once without polling.
C35_EveryPolledCodeIsFedOnce ==
    [][/\ Len(delivered') > Len(delivered) =>
             /\ pc = "loop" /\ ctl_running /\ code_queue # <<>>
             /\ pc' = "polled"
             /\ ir_code' = Head(code_queue)
             /\ delivered' = Append(delivered, Head(code_queue))
             /\ code_queue' = Tail(code_queue)
       /\ (pc = "loop" /\ pc' = "polled" /\ code_queue = <<>>) =>
             (ir_code' = None /\ delivered' = delivered)
       /\ (pc = "polled" /\ pc' # pc /\ ir_code # None) =>
             (pc' \notin OutsideProcessCode /\ ir_code' = ir_code)
       /\ (pc = "polled" /\ pc' # pc /\ ir_code = None) =>
             pc' \in {"loop", "finally"}
       /\ (pc \in OutsideProcessCode /\ pc' \notin OutsideProcessCode) =>
             /\ pc = "polled"
             /\ delivered # <<>>
             /\ ir_code = delivered[Len(delivered)]
       /\ (pc \notin OutsideProcessCode /\ pc' \in OutsideProcessCode) =>
             pc' = "loop"
       /\ (pc = "run_entry" /\ ~ctl_running /\ pc' # pc) =>
             /\ pc' = "returned"
             /\ UNCHANGED <<code_queue, delivered, ir_code, spc, receiver_vars>>
      ]_vars

\* two codes were polled and the second is being processed after the first
C35_TwoCodesFedInOrder ==
    /\ delivered = <<"0x1", "0x2">>
    /\ pc = "p_decide"
    /\ ir_code = "0x2"
    /\ last_code = "0x1"
    /\ code_queue = <<REPEAT>>


\* C36: under every interleaving of the timer thread's _auto_release with
\* _handle_repeat on the polling thread, process_code("REPEAT") never raises:
\* past its checks it never subtracts from a first_repeat_time that is None
\* and never dispatches a repeat action on a None mapping.
C36_RepeatSurvivesAutoRelease ==
    /\ pc = "h_since" => first_repeat_time # NoTime
    /\ pc = "rp_exec" => rp_mapping # None


\* the keys that are tracked as held and whose last actuator call was a press
HeldAndDown == currently_pressed \cap down

C38_IdleNeverEndsTheLoop ==
    /\ ctl_running => (pc \notin {"finally", "returned"} /\ IsConnected)
    /\ stop_calls = <<>>


\* C39: the receiver can be restarted after a disconnect: whenever
\* start_receiving() has returned True (the receiver is connected and marked
\* receiving, a state the call leaves as it is), a receiver thread is
\* running, so lines arriving on the new connection are enqueued.
C39_ReceivingMeansThreadAlive ==
    (IsConnected /\ receiving) => receiver_thread = "alive"

============================================================================
